---- MODULE Spec2Model ----
(***************************************************************************)
(* A model of midi_to_json_custom.py: the variable-length reader, the      *)
(* track decoder of parse_midi, the tempo map with ticks_to_seconds, and   *)
(* the command-line run that rescales and writes the timeline.             *)
(*                                                                         *)
(* Buffers are sequences of bytes; the Python index i is the TLA+ index    *)
(* i + 1.  An uncaught Python exception ends the run: pc = "raised" and    *)
(* exc names the exception.                                                *)
(***************************************************************************)
EXTENDS Integers, Sequences, FiniteSets, TLC

VARIABLES
    data,               \* the bytes of the input file
    target_duration,    \* args.target_duration: a rational, or None
    pc,                 \* position of the run
    exc,                \* the uncaught exception, "none" while there is none
    stdout,             \* the messages printed so far
    offset,             \* parse_midi: read offset into data
    num_tracks,         \* parse_midi: header field
    ticks_per_quarter,  \* parse_midi: header field
    track_idx,          \* parse_midi: index of the for loop over the tracks
    track_end,          \* parse_midi: offset + track_len of the current chunk
    absolute_ticks,     \* parse_midi: running sum of the deltas of the track
    last_status,        \* parse_midi: running status of the track
    track_events,       \* parse_midi: events of the current track
    tracks,             \* parse_midi: the tracks decoded so far
    all_events,         \* parse_midi: the Set Tempo events of all tracks
    tempo_events,       \* parse_midi: the tempo map ticks_to_seconds reads
    ret,                \* what parse_midi returned
    output_file,        \* what the run wrote, None before
    arg,                \* the inputs of a function applied on its own
    result,             \* what that function returned
    root,               \* dawproject main: the element tree of project.xml
    initial_bpm,        \* dawproject main: first result of get_tempo_map
    tempo_points,       \* dawproject main: second result of get_tempo_map
    daw_tracks,         \* dawproject main: tracks, track id -> track name
    daw_track_events,   \* dawproject main: track_events, in insertion order
    final_output        \* dawproject main: the assembled tracks

vars == <<data, target_duration, pc, exc, stdout, offset, num_tracks,
          ticks_per_quarter, track_idx, track_end, absolute_ticks,
          last_status, track_events, tracks, all_events, tempo_events, ret,
          output_file, arg, result, root, initial_bpm, tempo_points,
          daw_tracks, daw_track_events, final_output>>

\* the variables of dawproject_to_json.py alone
dawVars == <<root, initial_bpm, tempo_points, daw_tracks, daw_track_events,
             final_output>>

\* Python's None
None == [none |-> TRUE]

(***************************************************************************)
(* Python integers are unbounded.  A value the variable-length reader      *)
(* accumulates is kept as two limbs, value = hi * 128^3 + lo, so that a    *)
(* value beyond 32 bits is a value of the model too.                       *)
(***************************************************************************)
LimbBase == 128 * 128 * 128

Zero == [hi |-> 0, lo |-> 0]

\* a plausible slip: the accumulator shifted by a whole byte
ShiftOr8(value, byte) ==
    LET t == value.lo * 256 + (byte % 128)
    IN  [hi |-> value.hi * 256 + (t \div LimbBase), lo |-> t % LimbBase]

\* value = (value << 7) | (byte & 0x7F)
ShiftOr7(value, byte) ==
    LET t == value.lo * 128 + (byte % 128)
    IN  [hi |-> value.hi * 128 + (t \div LimbBase), lo |-> t % LimbBase]

\* the integer a two-limb value stands for (for values below 2^31)
IntOf(value) == value.hi * LimbBase + value.lo

\* value >= 2^32, 2^32 = 2^11 * 128^3
AtLeast2To32(value) == value.hi >= 2048


(***************************************************************************)
(* read_variable_length(data, offset).  data[offset] past the end of the   *)
(* buffer raises IndexError.                                               *)
(***************************************************************************)
RECURSIVE ReadVarLoop(_, _, _)
ReadVarLoop(d, off, value) ==
    IF off >= Len(d)
    THEN [exc |-> "IndexError", value |-> value, offset |-> off]
    ELSE LET byte == d[off + 1]
             v == ShiftOr7(value, byte)
         IN  IF byte >= 128
             THEN ReadVarLoop(d, off + 1, v)
             ELSE [exc |-> "none", value |-> v, offset |-> off + 1]

read_variable_length(d, off) == ReadVarLoop(d, off, Zero)

(***************************************************************************)
(* The standard variable-length encoding of v in [0, 2^28): 7 bits per     *)
(* byte, most significant group first, the continuation bit on all but     *)
(* the last byte.                                                          *)
(***************************************************************************)
RECURSIVE EncodeGroups(_)
EncodeGroups(v) ==
    IF v < 128 THEN <<v>> ELSE Append(EncodeGroups(v \div 128), v % 128)

EncodeVarLen(v) ==
    LET g == EncodeGroups(v)
    IN  [i \in 1..Len(g) |-> IF i < Len(g) THEN g[i] + 128 ELSE g[i]]

(***************************************************************************)
(* Python helpers.                                                         *)
(***************************************************************************)
Min(a, b) == IF a <= b THEN a ELSE b

\* data[a:b] for 0 <= a: the slice is cut at the end of the buffer
Slice(d, a, b) == SubSeq(d, a + 1, Min(b, Len(d)))

\* struct.unpack('>I', four bytes)
BE32(b) == ((b[1] * 256 + b[2]) * 256 + b[3]) * 256 + b[4]

\* struct.unpack('>H', two bytes)
BE16(b) == b[1] * 256 + b[2]

MThd == <<77, 84, 104, 100>>
MTrk == <<77, 84, 114, 107>>

RECURSIVE Gcd(_, _)
Gcd(a, b) == IF b = 0 THEN a ELSE Gcd(b, a % b)

\* a float, kept as the exact fraction n / d in lowest terms, d > 0
Rat(n, d) ==
    LET g == Gcd(IF n < 0 THEN -n ELSE n, d)
    IN  [n |-> n \div g, d |-> d \div g]

RatZero == [n |-> 0, d |-> 1]

RatAdd(a, b) ==
    LET g == Gcd(a.d, b.d)
    IN  Rat(a.n * (b.d \div g) + b.n * (a.d \div g), (a.d \div g) * b.d)

RatMul(a, b) ==
    LET x == Rat(a.n, b.d)
        y == Rat(b.n, a.d)
    IN  [n |-> x.n * y.n, d |-> x.d * y.d]

\* a / b for b > 0
RatDiv(a, b) == RatMul(a, [n |-> b.d, d |-> b.n])

RatLess(a, b) ==
    LET g == Gcd(a.d, b.d)
    IN  a.n * (b.d \div g) < b.n * (a.d \div g)

RatLeq(a, b) ==
    LET g == Gcd(a.d, b.d)
    IN  a.n * (b.d \div g) <= b.n * (a.d \div g)

(***************************************************************************)
(* bytes.decode('utf-8'): the code points, or "invalid" where Python       *)
(* raises UnicodeDecodeError.                                              *)
(***************************************************************************)
IsCont(b) == b >= 128 /\ b < 192

RECURSIVE Utf8Decode(_, _)
Utf8Decode(b, i) ==
    IF i > Len(b) THEN [ok |-> TRUE, chars |-> <<>>]
    ELSE LET c == b[i]
             n == IF c < 128 THEN 0
                  ELSE IF c >= 194 /\ c < 224 THEN 1
                  ELSE IF c >= 224 /\ c < 240 THEN 2
                  ELSE IF c >= 240 /\ c < 245 THEN 3
                  ELSE -1
             fits == n >= 0 /\ i + n <= Len(b)
                     /\ \A k \in 1..n : IsCont(b[i + k])
             second == IF n >= 2 /\ fits THEN b[i + 1] ELSE 128
             wellFormed == /\ fits
                           /\ (c = 224 => second >= 160)
                           /\ (c = 237 => second < 160)
                           /\ (c = 240 => second >= 144)
                           /\ (c = 244 => second < 144)
             rest == IF wellFormed THEN Utf8Decode(b, i + n + 1)
                     ELSE [ok |-> FALSE, chars |-> <<>>]
         IN  IF rest.ok
             THEN [ok |-> TRUE, chars |-> <<SubSeq(b, i, i + n)>> \o rest.chars]
             ELSE rest

\* try: meta_data.decode('utf-8')  except: str(meta_data)
DecodeText(meta_data) ==
    LET t == Utf8Decode(meta_data, 1)
    IN  IF t.ok
        THEN [decoded |-> TRUE, chars |-> t.chars]
        ELSE [decoded |-> FALSE, chars |-> meta_data]

(***************************************************************************)
(* One pass of the while loop of parse_midi: the delta, the status byte    *)
(* with running status, and the event.  The answer is what the pass did:   *)
(* exc (an exception left the loop), brk (the running-status break), or    *)
(* the event appended, with the locals as the pass leaves them.            *)
(***************************************************************************)
Raise(e) ==
    [exc |-> e, brk |-> FALSE, offset |-> 0, absolute_ticks |-> 0,
     last_status |-> 0, event |-> <<>>, tempo |-> FALSE]

Break(off, abs, last) ==
    [exc |-> "none", brk |-> TRUE, offset |-> off, absolute_ticks |-> abs,
     last_status |-> last, event |-> <<>>, tempo |-> FALSE]

Emit(off, abs, last, ev, isTempo) ==
    [exc |-> "none", brk |-> FALSE, offset |-> off, absolute_ticks |-> abs,
     last_status |-> last, event |-> ev, tempo |-> isTempo]

\* status == 0xFF
MetaEvent(d, off, abs, last, base) ==
    IF off >= Len(d) THEN Raise("IndexError")
    ELSE
    LET meta_type == d[off + 1]
        lv == read_variable_length(d, off + 1)
    IN  IF lv.exc # "none" THEN Raise(lv.exc)
        ELSE
        LET length == IntOf(lv.value)
            meta_data == Slice(d, lv.offset, lv.offset + length)
            off2 == lv.offset + length
            ev == base @@ [type |-> "meta", metaType |-> meta_type]
        IN  IF meta_type = 81 /\ length = 3
            THEN IF Len(meta_data) < 3 THEN Raise("IndexError")
                 ELSE Emit(off2, abs, last,
                           ev @@ [subType |-> "setTempo",
                                  tempo |-> (meta_data[1] * 256 + meta_data[2]) * 256
                                            + meta_data[3]],
                           TRUE)
            ELSE IF meta_type = 3
            THEN Emit(off2, abs, last,
                      ev @@ [subType |-> "trackName", text |-> DecodeText(meta_data)],
                      FALSE)
            ELSE IF meta_type = 47
            THEN Emit(off2, abs, last, ev @@ [subType |-> "endOfTrack"], FALSE)
            ELSE Emit(off2, abs, last, ev @@ [subType |-> "unknown"], FALSE)

\* a plausible slip: the length is read and the payload is not skipped
SysexEventNoSkip(d, off, abs, last, base) ==
    LET lv == read_variable_length(d, off)
    IN  IF lv.exc # "none" THEN Raise(lv.exc)
        ELSE Emit(lv.offset, abs, last, base @@ [type |-> "sysex"], FALSE)

\* status == 0xF0 or status == 0xF7
SysexEvent(d, off, abs, last, base) ==
    LET lv == read_variable_length(d, off)
    IN  IF lv.exc # "none" THEN Raise(lv.exc)
        ELSE Emit(lv.offset + IntOf(lv.value), abs, last,
                  base @@ [type |-> "sysex"], FALSE)

\* a plausible slip: a Note On of velocity 0 kept as a Note On
NoteOnAsRead(base, note, velocity) ==
    base @@ [type |-> "noteOn", note |-> note, velocity |-> velocity]

\* line 154: (msb << 7) | lsb over bytes 0..255; the two operands share bit 7
\* only, so the bitwise or is the sum less that bit when both have it
PitchBendValue(lsb, msb) ==
    msb * 128 + lsb - (IF lsb >= 128 /\ msb % 2 = 1 THEN 128 ELSE 0)

\* lines 118-125: the event of a Note On status
NoteOn(base, note, velocity) ==
    IF velocity = 0
    THEN base @@ [type |-> "noteOff", note |-> note, velocity |-> 0]
    ELSE base @@ [type |-> "noteOn", note |-> note, velocity |-> velocity]

\* the channel voice messages, by event_type = status >> 4
ChannelEvent(d, off, abs, last, base, event_type) ==
    LET two == off + 1 < Len(d)
        one == off < Len(d)
        b1 == d[off + 1]
        b2 == d[off + 2]
    IN  IF event_type \in {8, 9, 10, 11, 14} /\ ~two THEN Raise("IndexError")
        ELSE IF event_type \in {12, 13} /\ ~one THEN Raise("IndexError")
        ELSE IF event_type = 8
        THEN Emit(off + 2, abs, last,
                  base @@ [type |-> "noteOff", note |-> b1, velocity |-> b2], FALSE)
        ELSE IF event_type = 9
        THEN Emit(off + 2, abs, last, NoteOn(base, b1, b2), FALSE)
        ELSE IF event_type = 10
        THEN Emit(off + 2, abs, last,
                  base @@ [type |-> "polyphonicKeyPressure", note |-> b1,
                           pressure |-> b2], FALSE)
        ELSE IF event_type = 11
        THEN Emit(off + 2, abs, last,
                  base @@ [type |-> "controlChange", controller |-> b1,
                           value |-> b2], FALSE)
        ELSE IF event_type = 12
        THEN Emit(off + 1, abs, last,
                  base @@ [type |-> "programChange", program |-> b1], FALSE)
        ELSE IF event_type = 13
        THEN Emit(off + 1, abs, last,
                  base @@ [type |-> "channelPressure", pressure |-> b1], FALSE)
        ELSE IF event_type = 14
        THEN Emit(off + 2, abs, last,
                  base @@ [type |-> "pitchBend", value |-> PitchBendValue(b1, b2)], FALSE)
        ELSE Emit(off, abs, last, base, FALSE)

\* the event of an effective status byte, the read offset past the status
Dispatch(d, off, abs, last, status) ==
    LET event_type == status \div 16
        channel == status % 16
        base == [absoluteTicks |-> abs, channel |-> channel]
    IN  IF status = 255 THEN MetaEvent(d, off, abs, last, base)
        ELSE IF status = 240 \/ status = 247 THEN SysexEvent(d, off, abs, last, base)
        ELSE ChannelEvent(d, off, abs, last, base, event_type)

\* if status < 0xF0: last_status = status
KeepStatus(status, last) == IF status < 240 THEN status ELSE last

\* a plausible slip: a byte consumed for the status also when it is inherited
AfterStatusAlways(off, status) == off + 1

\* if status >= 0x80: offset += 1
AfterStatus(off, status) == IF status >= 128 THEN off + 1 ELSE off

\* a plausible slip: the delta taken for the position itself
AddDeltaAssign(ticks, delta_time) == delta_time

\* absolute_ticks += delta_time
AddDelta(ticks, delta_time) == ticks + delta_time

DecodeEvent(d, off, ticks, last) ==
    LET dv == read_variable_length(d, off)
    IN  IF dv.exc # "none" THEN Raise(dv.exc)
        ELSE
        LET abs == AddDelta(ticks, IntOf(dv.value))
        IN  IF dv.offset >= Len(d) THEN Raise("IndexError")
            ELSE
            LET status == d[dv.offset + 1]
                off1 == AfterStatus(dv.offset, status)
            IN  IF status >= 128
                THEN Dispatch(d, off1, abs, KeepStatus(status, last), status)
                ELSE IF last = 0
                THEN Break(off1, abs, last)
                ELSE Dispatch(d, off1, abs, last, last)

\* lines 51-158 as a whole: the while loop over one chunk
RECURSIVE WhileLoop(_, _, _, _, _, _)
WhileLoop(d, off, trackEnd, ticks, last, events) ==
    IF off >= trackEnd
    THEN [exc |-> "none", brk |-> FALSE, offset |-> off, events |-> events]
    ELSE LET r == DecodeEvent(d, off, ticks, last)
         IN  IF r.exc # "none"
             THEN [exc |-> r.exc, brk |-> FALSE, offset |-> off, events |-> events]
             ELSE IF r.brk
             THEN [exc |-> "none", brk |-> TRUE, offset |-> r.offset, events |-> events]
             ELSE WhileLoop(d, r.offset, trackEnd, r.absolute_ticks, r.last_status,
                            Append(events, r.event))

(***************************************************************************)
(* The tempo map and ticks_to_seconds.                                     *)
(***************************************************************************)
DefaultTempo == 500000

IsSetTempo(e) == "subType" \in DOMAIN e /\ e.subType = "setTempo"

\* a plausible slip: e placed before the elements of the same tick
RECURSIVE InsertBeforeTies(_, _)
InsertBeforeTies(s, e) ==
    IF s = <<>> THEN <<e>>
    ELSE IF s[Len(s)].absoluteTicks < e.absoluteTicks THEN Append(s, e)
    ELSE Append(InsertBeforeTies(SubSeq(s, 1, Len(s) - 1), e), s[Len(s)])

\* e placed after every element of the sorted s whose tick is not greater
RECURSIVE InsertByTicks(_, _)
InsertByTicks(s, e) ==
    IF s = <<>> THEN <<e>>
    ELSE IF s[Len(s)].absoluteTicks <= e.absoluteTicks THEN Append(s, e)
    ELSE Append(InsertByTicks(SubSeq(s, 1, Len(s) - 1), e), s[Len(s)])

\* list.sort(key=lambda x: x["absoluteTicks"]): a stable sort
RECURSIVE SortByTicks(_)
SortByTicks(s) ==
    IF s = <<>> THEN <<>>
    ELSE InsertByTicks(SortByTicks(SubSeq(s, 1, Len(s) - 1)), s[Len(s)])

\* a plausible slip: the Set Tempo events kept in file order
BuildTempoEventsUnsorted(events) ==
    LET te == SelectSeq(events, IsSetTempo)
    IN  IF te = <<>> \/ te[1].absoluteTicks > 0
        THEN <<[absoluteTicks |-> 0, tempo |-> DefaultTempo]>> \o te
        ELSE te

BuildTempoEvents(events) ==
    LET te == SortByTicks(SelectSeq(events, IsSetTempo))
    IN  IF te = <<>> \/ te[1].absoluteTicks > 0
        THEN <<[absoluteTicks |-> 0, tempo |-> DefaultTempo]>> \o te
        ELSE te

\* a plausible slip: microseconds taken for milliseconds
TermMillis(delta, tempo, tpq) == Rat(delta * tempo, tpq * 1000)

\* (delta * current_tempo) / (ticks_per_quarter * 1000000.0)
Term(delta, tempo, tpq) == Rat(delta * tempo, tpq * 1000000)

RECURSIVE TtsLoop(_, _, _, _, _, _, _)
TtsLoop(ticks, te, i, current_time, current_tick, current_tempo, tpq) ==
    IF i > Len(te) \/ ticks < te[i].absoluteTicks
    THEN RatAdd(current_time, Term(ticks - current_tick, current_tempo, tpq))
    ELSE TtsLoop(ticks, te, i + 1,
                 RatAdd(current_time,
                        Term(te[i].absoluteTicks - current_tick, current_tempo, tpq)),
                 te[i].absoluteTicks, te[i].tempo, tpq)

\* a ticks_to_seconds that removes from the tempo map the entry it has passed
ticks_to_seconds_consuming(ticks, te, tpq) ==
    IF tpq * 1000000 = 0
    THEN [exc |-> "ZeroDivisionError", value |-> RatZero, tempo_events |-> te]
    ELSE [exc |-> "none",
          value |-> TtsLoop(ticks, te, 1, RatZero, 0, DefaultTempo, tpq),
          tempo_events |-> IF te = <<>> THEN te ELSE Tail(te)]

\* the division by ticks_per_quarter * 1000000.0 raises when that is 0.0,
\* and every call divides at least once; the loop reads tempo_events and
\* assigns only the locals current_time, current_tick, current_tempo and
\* delta, so the tempo map after the call is the one before it
ticks_to_seconds(ticks, te, tpq) ==
    IF tpq * 1000000 = 0
    THEN [exc |-> "ZeroDivisionError", value |-> RatZero, tempo_events |-> te]
    ELSE [exc |-> "none",
          value |-> TtsLoop(ticks, te, 1, RatZero, 0, DefaultTempo, tpq),
          tempo_events |-> te]

\* event["time"] = ticks_to_seconds(event["absoluteTicks"]), per track
TimedTrack(track, te, tpq) ==
    [i \in 1..Len(track) |->
        track[i] @@ [time |-> ticks_to_seconds(track[i].absoluteTicks, te, tpq).value]]

IsNoteOff(e) == "type" \in DOMAIN e /\ e.type = "noteOff"

\* the greatest time of a noteOff event, 0 when there is none
LastNoteOff(timed) ==
    LET S == UNION {{timed[t][i].time :
                        i \in {j \in DOMAIN timed[t] : IsNoteOff(timed[t][j])}} :
                    t \in DOMAIN timed} \cup {RatZero}
    IN  CHOOSE x \in S : \A y \in S : RatLeq(y, x)

\* n copies of byte b
Repeat(b, n) == [i \in 1..n |-> b]

(***************************************************************************)
(* The variable-length reader applied on its own.                          *)
(***************************************************************************)
\* the 7-bit groups values are built from
GroupVals == {0, 1, 64, 127}

\* bytes before the encoding: at most MaxPad
MaxPad == 2

\* continuation bytes before the last byte of a raw sequence: at most MaxCont
MaxCont == 5

VarLenValues ==
    {((g[1] * 128 + g[2]) * 128 + g[3]) * 128 + g[4] :
        g \in [1..4 -> GroupVals]}

\* dawproject_to_json.py is not run
DawIdle ==
    /\ root = None
    /\ initial_bpm = None
    /\ tempo_points = <<>>
    /\ daw_tracks = <<>>
    /\ daw_track_events = <<>>
    /\ final_output = <<>>

Idle ==
    /\ DawIdle
    /\ target_duration = None
    /\ stdout = <<>>
    /\ num_tracks = 0
    /\ ticks_per_quarter = 0
    /\ track_idx = 0
    /\ track_end = 0
    /\ absolute_ticks = 0
    /\ last_status = 0
    /\ track_events = <<>>
    /\ tracks = <<>>
    /\ all_events = <<>>
    /\ ret = None
    /\ output_file = None

InitVarLen ==
    /\ Idle
    /\ tempo_events = <<>>
    /\ pc = "call"
    /\ exc = "none"
    /\ result = None
    /\ \E pad \in 0..MaxPad :
          /\ offset = pad
          /\ \/ \E v \in VarLenValues, tail \in {<<>>, <<129>>} :
                   /\ data = Repeat(255, pad) \o EncodeVarLen(v) \o tail
                   /\ arg = [kind |-> "encoded", v |-> v, offset |-> pad]
             \/ \E k \in 0..MaxCont, last \in {<<>>, <<127>>, <<0>>} :
                   /\ data = Repeat(255, pad) \o Repeat(255, k) \o last
                   /\ arg = [kind |-> "raw", v |-> -1, offset |-> pad]

CallReadVarLen ==
    /\ pc = "call"
    /\ LET r == read_variable_length(data, offset)
       IN  /\ exc' = r.exc
           /\ pc' = IF r.exc = "none" THEN "returned" ELSE "raised"
           /\ result' = IF r.exc = "none" THEN r.value ELSE None
           /\ offset' = IF r.exc = "none" THEN r.offset ELSE offset
    /\ UNCHANGED <<data, target_duration, stdout, num_tracks,
                   ticks_per_quarter, track_idx, track_end, absolute_ticks,
                   last_status, track_events, tracks, all_events,
                   tempo_events, ret, output_file, arg>>
    /\ UNCHANGED dawVars

NextVarLen == CallReadVarLen

SpecVarLen == InitVarLen /\ [][NextVarLen]_vars

(***************************************************************************)
(* The run of the script on a file: parse_midi, then the main block.       *)
(***************************************************************************)
\* time_division & 0x8000 left out
NoSmpteCheck(time_division) == FALSE

\* time_division & 0x8000, of a 16-bit field
IsSmpte(time_division) == time_division >= 32768

\* lines 17-35: the header
ParseHeader ==
    /\ pc = "parse_midi"
    /\ LET lenBytes == Slice(data, 4, 8)
           header_len == BE32(lenBytes)
           fields == Slice(data, 8, 8 + header_len)
           time_division == BE16(SubSeq(fields, 5, 6))
       IN  IF Slice(data, 0, 4) # MThd
           THEN /\ stdout' = Append(stdout, "Invalid MIDI file: Missing MThd header")
                /\ ret' = None
                /\ pc' = "main"
                /\ UNCHANGED <<exc, offset, num_tracks, ticks_per_quarter>>
           ELSE IF Len(lenBytes) # 4 \/ Len(fields) # 6
           THEN /\ exc' = "struct.error"
                /\ pc' = "raised"
                /\ UNCHANGED <<stdout, ret, offset, num_tracks, ticks_per_quarter>>
           ELSE /\ num_tracks' = BE16(SubSeq(fields, 3, 4))
                /\ offset' = 8 + header_len
                /\ ticks_per_quarter' = time_division
                /\ exc' = exc
                /\ IF IsSmpte(time_division)
                   THEN /\ stdout' = Append(stdout, "SMPTE time division not supported")
                        /\ ret' = None
                        /\ pc' = "main"
                   ELSE /\ pc' = "for_track"
                        /\ UNCHANGED <<stdout, ret>>
    /\ tracks' = <<>>
    /\ all_events' = <<>>
    /\ UNCHANGED <<data, target_duration, track_idx, track_end, absolute_ticks,
                   last_status, track_events, tempo_events, output_file, arg,
                   result>>
    /\ UNCHANGED dawVars

\* a plausible slip: the running status of the track before is kept
StatusCarriedOver(last) == last

\* line 48: last_status = 0
StatusAtTrackStart(last) == 0

\* lines 37-49: the head of the for loop, one more track to decode
TrackBegin ==
    /\ pc = "for_track"
    /\ track_idx < num_tracks
    /\ LET lenBytes == Slice(data, offset + 4, offset + 8)
       IN  IF Slice(data, offset, offset + 4) # MTrk
           THEN /\ stdout' = Append(stdout, "Expected MTrk")
                /\ pc' = "tempo_map"
                /\ UNCHANGED <<exc, offset, track_end, absolute_ticks, last_status,
                               track_events>>
           ELSE IF Len(lenBytes) # 4
           THEN /\ exc' = "struct.error"
                /\ pc' = "raised"
                /\ UNCHANGED <<stdout, offset, track_end, absolute_ticks,
                               last_status, track_events>>
           ELSE /\ offset' = offset + 8
                /\ track_end' = offset + 8 + BE32(lenBytes)
                /\ absolute_ticks' = 0
                /\ last_status' = StatusAtTrackStart(last_status)
                /\ track_events' = <<>>
                /\ pc' = "while_event"
                /\ UNCHANGED <<exc, stdout>>
    /\ UNCHANGED <<data, target_duration, num_tracks, ticks_per_quarter, track_idx,
                   tracks, all_events, tempo_events, ret, output_file, arg, result>>
    /\ UNCHANGED dawVars

\* line 37: the for loop has run num_tracks times
TracksDone ==
    /\ pc = "for_track"
    /\ track_idx >= num_tracks
    /\ pc' = "tempo_map"
    /\ UNCHANGED <<data, target_duration, exc, stdout, offset, num_tracks,
                   ticks_per_quarter, track_idx, track_end, absolute_ticks,
                   last_status, track_events, tracks, all_events, tempo_events,
                   ret, output_file, arg, result>>
    /\ UNCHANGED dawVars

\* lines 51-158: one pass of the while loop
EventStep ==
    /\ pc = "while_event"
    /\ offset < track_end
    /\ LET r == DecodeEvent(data, offset, absolute_ticks, last_status)
       IN  IF r.exc # "none"
           THEN /\ exc' = r.exc
                /\ pc' = "raised"
                /\ UNCHANGED <<stdout, offset, absolute_ticks, last_status,
                               track_events, tracks, all_events, track_idx>>
           ELSE IF r.brk
           THEN \* break, then line 160 and the next track
                /\ stdout' = Append(stdout, "Error: Running status used without previous status")
                /\ offset' = r.offset
                /\ absolute_ticks' = r.absolute_ticks
                /\ tracks' = Append(tracks, track_events)
                /\ track_idx' = track_idx + 1
                /\ pc' = "for_track"
                /\ UNCHANGED <<exc, last_status, track_events, all_events>>
           ELSE /\ offset' = r.offset
                /\ absolute_ticks' = r.absolute_ticks
                /\ last_status' = r.last_status
                /\ track_events' = Append(track_events, r.event)
                /\ all_events' = IF r.tempo THEN Append(all_events, r.event)
                                 ELSE all_events
                /\ pc' = "while_event"
                /\ UNCHANGED <<exc, stdout, tracks, track_idx>>
    /\ UNCHANGED <<data, target_duration, num_tracks, ticks_per_quarter, track_end,
                   tempo_events, ret, output_file, arg, result>>
    /\ UNCHANGED dawVars

\* lines 51, 160: the while loop ends at track_end, the track is kept
TrackEnd ==
    /\ pc = "while_event"
    /\ offset >= track_end
    /\ tracks' = Append(tracks, track_events)
    /\ track_idx' = track_idx + 1
    /\ pc' = "for_track"
    /\ UNCHANGED <<data, target_duration, exc, stdout, offset, num_tracks,
                   ticks_per_quarter, track_end, absolute_ticks, last_status,
                   track_events, all_events, tempo_events, ret, output_file, arg,
                   result>>
    /\ UNCHANGED dawVars

\* lines 162-212: the tempo map, the times of all events, the return
BuildTimeline ==
    /\ pc = "tempo_map"
    /\ LET te == BuildTempoEvents(all_events)
           raises == \E t \in DOMAIN tracks : \E i \in DOMAIN tracks[t] :
                        ticks_to_seconds(tracks[t][i].absoluteTicks, te,
                                         ticks_per_quarter).exc # "none"
           processed_tracks ==
               [t \in 1..Len(tracks) |-> TimedTrack(tracks[t], te, ticks_per_quarter)]
       IN  /\ tempo_events' = te
           /\ IF raises
              THEN /\ exc' = "ZeroDivisionError"
                   /\ pc' = "raised"
                   /\ UNCHANGED <<stdout, ret>>
              ELSE /\ stdout' = Append(stdout, "Parsed tracks")
                   /\ ret' = [none |-> FALSE,
                              json_data |-> processed_tracks,
                              last_note_off |-> LastNoteOff(processed_tracks)]
                   /\ pc' = "main"
                   /\ exc' = exc
    /\ UNCHANGED <<data, target_duration, offset, num_tracks, ticks_per_quarter,
                   track_idx, track_end, absolute_ticks, last_status, track_events,
                   tracks, all_events, output_file, arg, result>>
    /\ UNCHANGED dawVars

\* a plausible slip: only the Note Off events are rescaled
ScaledNoteOffs(json_data, scale_factor) ==
    [t \in 1..Len(json_data) |->
        [i \in 1..Len(json_data[t]) |->
            IF IsNoteOff(json_data[t][i])
            THEN [json_data[t][i] EXCEPT !.time = RatMul(@, scale_factor)]
            ELSE json_data[t][i]]]

\* event["time"] *= scale_factor, for every event of every track
Scaled(json_data, scale_factor) ==
    [t \in 1..Len(json_data) |->
        [i \in 1..Len(json_data[t]) |->
            [json_data[t][i] EXCEPT !.time = RatMul(@, scale_factor)]]]

\* lines 222-244: the main block, after parse_midi has returned
Main ==
    /\ pc = "main"
    /\ IF ret = None
       THEN \* json_data, last_note_off = None
            /\ exc' = "TypeError"
            /\ pc' = "raised"
            /\ UNCHANGED <<stdout, output_file>>
       ELSE /\ exc' = exc
            /\ pc' = "done"
            /\ IF ret.json_data = <<>>
               THEN UNCHANGED <<stdout, output_file>>
               ELSE IF target_duration = None \/ target_duration.n = 0
               THEN /\ output_file' = ret.json_data
                    /\ stdout' = Append(stdout, "Saved")
               ELSE IF RatLess(RatZero, ret.last_note_off)
               THEN /\ output_file' =
                           Scaled(ret.json_data,
                                  RatDiv(target_duration, ret.last_note_off))
                    /\ stdout' = stdout \o <<"Scaling time", "Saved">>
               ELSE /\ output_file' = ret.json_data
                    /\ stdout' = stdout \o
                           <<"Warning: Last note off is 0, cannot scale.", "Saved">>
    /\ UNCHANGED <<data, target_duration, offset, num_tracks, ticks_per_quarter,
                   track_idx, track_end, absolute_ticks, last_status, track_events,
                   tracks, all_events, tempo_events, ret, arg, result>>
    /\ UNCHANGED dawVars

(***************************************************************************)
(* The input files of the run: a header, then chunks whose bodies are made *)
(* of a few events, with at most one defect per file.                      *)
(***************************************************************************)
\* tracks in a file: at most MaxTracks
MaxTracks == 2

\* events in a file, over all its tracks: at most MaxEvents
MaxEvents == 2

Events ==
    << <<0, 144, 60, 64>>,                \* delta 0, Note On, channel 0
       <<1, 60, 0>>,                      \* delta 1, running status, velocity 0
       <<0, 128, 60, 64>>,                \* delta 0, Note Off, channel 0
       <<1, 255, 81, 3, 15, 66, 64>>,     \* delta 1, Set Tempo 1000000
       <<2, 255, 81, 3, 3, 208, 144>>,    \* delta 2, Set Tempo 250000
       <<0, 240, 1, 126>>,                \* delta 0, System Exclusive, 1 byte
       <<0, 255, 81, 3, 30, 132, 128>>,   \* delta 0, Set Tempo 2000000
       <<1, 128, 60, 64>> >>              \* delta 1, Note Off, channel 0

EventSeqs == UNION {[1..n -> 1..Len(Events)] : n \in 0..MaxEvents}

RECURSIVE Flatten(_)
Flatten(ss) == IF ss = <<>> THEN <<>> ELSE Head(ss) \o Flatten(Tail(ss))

\* the bytes of the events es[from + 1 .. to]
Body(es, from, to) == Flatten([i \in 1..(to - from) |-> Events[es[from + i]]])

\* where the events of a file are cut into n tracks
Cuts(n, len) ==
    {c \in [0..n -> 0..len] :
        /\ c[0] = 0
        /\ c[n] = len
        /\ \A k \in 1..n : c[k - 1] <= c[k]}

U16(v) == <<v \div 256, v % 256>>

U32(v) == <<0, 0>> \o U16(v)

Header(magic, header_len, n, division) ==
    magic \o U32(header_len) \o U16(1) \o U16(n) \o U16(division)

Chunk(tag, slack, body) == tag \o U32(Len(body) + slack) \o body

Defects(n) ==
    {[kind |-> k, track |-> 0] : k \in {"none", "smpte", "tpq0", "magic", "hdrlen"}}
    \cup {[kind |-> k, track |-> t] :
             k \in {"tag", "short", "long", "missing"}, t \in 1..n}

File(n, es, c, defect) ==
    LET kind == defect.kind
        chunk(t) ==
            LET body == Body(es, c[t - 1], c[t])
            IN  IF defect.track # t THEN Chunk(MTrk, 0, body)
                ELSE IF kind = "tag" THEN Chunk(MThd, 0, body)
                ELSE IF kind = "short" THEN Chunk(MTrk, -1, body)
                ELSE IF kind = "long" THEN Chunk(MTrk, 1, body)
                ELSE <<>>
    IN  Header(IF kind = "magic" THEN MTrk ELSE MThd,
               IF kind = "hdrlen" THEN 4 ELSE 6,
               n,
               IF kind = "smpte" THEN 59176
               ELSE IF kind = "tpq0" THEN 0 ELSE 480)
        \o Flatten([t \in 1..n |-> chunk(t)])

\* --target-duration: absent, or 3, 0 or -3 seconds
TargetDurations == {None, Rat(3, 1), Rat(0, 1), Rat(-3, 1)}

Init ==
    /\ DawIdle
    /\ pc = "parse_midi"
    /\ exc = "none"
    /\ stdout = <<>>
    /\ offset = 0
    /\ num_tracks = 0
    /\ ticks_per_quarter = 0
    /\ track_idx = 0
    /\ track_end = 0
    /\ absolute_ticks = 0
    /\ last_status = 0
    /\ track_events = <<>>
    /\ tracks = <<>>
    /\ all_events = <<>>
    /\ tempo_events = <<>>
    /\ ret = None
    /\ output_file = None
    /\ result = None
    /\ \E n \in 0..MaxTracks, es \in EventSeqs :
          \E c \in Cuts(n, Len(es)), defect \in Defects(n) :
             /\ n = 0 => es = <<>>
             /\ defect.kind = "short" => c[defect.track] > c[defect.track - 1]
             /\ data = File(n, es, c, defect)
             /\ arg = [n |-> n, es |-> es, cuts |-> c, defect |-> defect]
             /\ target_duration \in
                    IF defect.kind = "none" THEN TargetDurations ELSE {None}

Next ==
    \/ ParseHeader
    \/ TrackBegin
    \/ TracksDone
    \/ EventStep
    \/ TrackEnd
    \/ BuildTimeline
    \/ Main

Spec == Init /\ [][Next]_vars

(***************************************************************************)
(* The claims about the run.                                               *)
(***************************************************************************)
Printed(msg) == \E i \in DOMAIN stdout : stdout[i] = msg

\* C2: while a track chunk is decoded the read offset never goes past the
\* chunk's declared end; an event that would extend beyond it is an error
\* and is not decoded from the bytes after the chunk.
NeverPastChunkEnd ==
    pc = "while_event" => offset <= track_end

\* C3: when a chunk's declared length exceeds the bytes remaining in the
\* buffer, the run fails with TruncatedInput: it neither ends with another
\* exception nor returns from parse_midi.
TruncatedChunkFails ==
    (track_end > Len(data) /\ pc \in {"raised", "main", "done"}) =>
        (pc = "raised" /\ exc = "TruncatedInput")

\* C4: once a data byte stands in status position with no status seen in
\* the track, the decode fails with RunningStatusUnavailable and parse_midi
\* returns no timeline.
NoTimelineAfterRunningStatusError ==
    Printed("Error: Running status used without previous status") =>
        (ret = None /\ output_file = None)

\* C5: when a track chunk does not begin with the track tag the decode
\* fails and no timeline is returned; a returned timeline has exactly
\* num_tracks tracks.
TimelineHasAllTracks ==
    /\ Printed("Expected MTrk") => (ret = None /\ output_file = None)
    /\ ret # None => Len(ret.json_data) = num_tracks

\* the file has a well-formed header whose time division has its top bit set
SmpteInput ==
    /\ Len(data) >= 14
    /\ Slice(data, 0, 4) = MThd
    /\ BE32(Slice(data, 4, 8)) = 6
    /\ BE16(Slice(data, 12, 14)) >= 32768

\* C6: in SMPTE mode the run fails, with its message, before any track is
\* decoded: no track chunk is read, no timeline is produced and no output
\* file is written.
SmpteFailsBeforeTracks ==
    SmpteInput =>
        /\ pc \in {"parse_midi", "main", "raised"}
        /\ pc # "parse_midi" => Printed("SMPTE time division not supported")
        /\ pc = "raised" => exc = "TypeError"
        /\ offset \in {0, 14}
        /\ track_idx = 0 /\ track_end = 0
        /\ tracks = <<>> /\ track_events = <<>>
        /\ ret = None
        /\ output_file = None

\* an SMPTE file with track chunks after its header, the run over
SmpteFailsBeforeTracksWitness ==
    /\ SmpteInput
    /\ num_tracks > 0
    /\ Len(data) > 14 + 8
    /\ pc = "raised"
    /\ exc = "TypeError"

\* the positions <<track, index>> of the events of a timeline
Positions(timeline) ==
    UNION {{<<t, i>> : i \in DOMAIN timeline[t]} : t \in DOMAIN timeline}

\* the run has ended after a rescale was asked for with a last Note Off time
\* greater than zero
RescaleAsked ==
    /\ pc = "done"
    /\ target_duration # None
    /\ RatLess(RatZero, ret.last_note_off)

\* the written timeline is the returned one with the latest Note Off at the
\* target, every time multiplied by target / T, and the order of times kept
RescaleLaw ==
    LET before == ret.json_data
        factor == RatDiv(target_duration, ret.last_note_off)
    IN  /\ Positions(output_file) = Positions(before)
        /\ LET after == output_file
               P == Positions(before)
               offs == {p \in P : IsNoteOff(after[p[1]][p[2]])}
           IN  /\ \E p \in offs : after[p[1]][p[2]].time = target_duration
               /\ \A p \in offs : RatLeq(after[p[1]][p[2]].time, target_duration)
               /\ \A p \in P :
                     after[p[1]][p[2]].time =
                         RatMul(before[p[1]][p[2]].time, factor)
               /\ \A p, q \in P :
                     RatLess(before[p[1]][p[2]].time, before[q[1]][q[2]].time)
                        <=> RatLess(after[p[1]][p[2]].time, after[q[1]][q[2]].time)

\* C12 as stated: whenever a target duration D is supplied and the last Note
\* Off time T is greater than zero, after the rescale pass the latest Note
\* Off is at D, every time has been multiplied by D / T and the order of any
\* two times is as before.
RescaleLawAnyTarget == RescaleAsked => RescaleLaw

\* C12, amended: the same for every target duration D greater than zero.
RescaleLawPositiveTarget ==
    (RescaleAsked /\ RatLess(RatZero, target_duration)) => RescaleLaw

\* a rescale by a positive target of a timeline with two different times
RescaleLawWitness ==
    /\ RescaleAsked
    /\ RatLess(RatZero, target_duration)
    /\ \E p, q \in Positions(output_file) :
          /\ RatLess(ret.json_data[p[1]][p[2]].time, ret.json_data[q[1]][q[2]].time)
          /\ output_file[q[1]][q[2]].time = target_duration
          /\ output_file[q[1]][q[2]].time # ret.json_data[q[1]][q[2]].time

\* C13: when a target duration is supplied but the last Note Off time is
\* zero, the rescale is skipped: every time is left as parse_midi returned
\* it, the warning is printed, and the run completes and writes the timeline.
ZeroNoteOffWarnsAndWrites ==
    (pc = "done" /\ target_duration # None /\ ret.last_note_off = RatZero) =>
        /\ Printed("Warning: Last note off is 0, cannot scale.")
        /\ Printed("Saved")
        /\ output_file = ret.json_data

\* the positions of the Set Tempo meta events (type 0x51, three data bytes)
\* of the decoded tracks
SetTempoPositions ==
    {p \in Positions(tracks) :
        LET e == tracks[p[1]][p[2]]
        IN  "metaType" \in DOMAIN e /\ e.metaType = 81 /\ "tempo" \in DOMAIN e}

\* how many of the elements of s are at the tick and have the rate
CountPoints(s, tick, tempo) ==
    Cardinality({i \in DOMAIN s : s[i].absoluteTicks = tick /\ s[i].tempo = tempo})

\* C19: the tempo map built by parse_midi has every Set Tempo event of every
\* track, is sorted by ascending tick and has its first point at tick 0:
\* the point (0, 500000) is put first when there is no Set Tempo or the
\* earliest one is after tick 0.
TempoMapComplete ==
    ret # None =>
        LET S == SetTempoPositions
            synthetic ==
                \A p \in S : tracks[p[1]][p[2]].absoluteTicks > 0
            real == IF synthetic THEN Tail(tempo_events) ELSE tempo_events
        IN  /\ tempo_events # <<>>
            /\ tempo_events[1].absoluteTicks = 0
            /\ \A i, j \in DOMAIN tempo_events :
                  i <= j => tempo_events[i].absoluteTicks <= tempo_events[j].absoluteTicks
            /\ synthetic =>
                  tempo_events[1] = [absoluteTicks |-> 0, tempo |-> 500000]
            /\ Len(real) = Cardinality(S)
            /\ \A p \in S :
                  LET e == tracks[p[1]][p[2]]
                  IN  CountPoints(real, e.absoluteTicks, e.tempo) =
                      Cardinality({q \in S :
                          /\ tracks[q[1]][q[2]].absoluteTicks = e.absoluteTicks
                          /\ tracks[q[1]][q[2]].tempo = e.tempo})

\* two tracks whose Set Tempo events are in the map in the other order than
\* in the file, the earliest at tick 0
TempoMapCompleteWitness ==
    /\ pc = "done"
    /\ Len(tracks) = 2
    /\ Len(all_events) = 2
    /\ Len(tempo_events) = 2
    /\ tempo_events[1] = all_events[2]
    /\ tempo_events[2] = all_events[1]
    /\ all_events[1].absoluteTicks > 0

\* the sum of the delta times (the first byte of each event of the input)
\* of the first i events of track t of the input file
RECURSIVE DeltaSum(_, _)
DeltaSum(t, i) ==
    IF i = 0 THEN 0
    ELSE DeltaSum(t, i - 1) + Events[arg.es[arg.cuts[t - 1] + i]][1]

\* the tracks decoded so far, the one being decoded last
DecodedTracks ==
    IF pc = "while_event" THEN Append(tracks, track_events) ELSE tracks

\* C20: within each decoded track the tick position of an event is the sum
\* of the delta times read so far in that track, so the positions never
\* decrease along the track and the first event is at its own delta, the
\* sum starting again from 0 in each track.
TicksAreRunningSum ==
    LET D == DecodedTracks
    IN  /\ \A t \in DOMAIN D : \A i, j \in DOMAIN D[t] :
              i <= j => D[t][i].absoluteTicks <= D[t][j].absoluteTicks
        /\ arg.defect.kind = "none" =>
              \A t \in DOMAIN D : \A i \in DOMAIN D[t] :
                  D[t][i].absoluteTicks = DeltaSum(t, i)

\* a second track whose first event is at its own delta, before the tick
\* the first track has ended at
TicksAreRunningSumWitness ==
    /\ pc = "done"
    /\ arg.defect.kind = "none"
    /\ Len(tracks) = 2
    /\ Len(tracks[1]) = 1
    /\ Len(tracks[2]) = 1
    /\ tracks[2][1].absoluteTicks > 0
    /\ tracks[2][1].absoluteTicks < tracks[1][1].absoluteTicks

(***************************************************************************)
(* The while loop applied on its own to one stream of events, written      *)
(* with every status byte and with the repeated status bytes left out.     *)
(***************************************************************************)
\* events in a stream: at most MaxStream
MaxStream == 3

\* an event of a stream: its delta, its status byte, the bytes after it
StreamEvents ==
    << [delta |-> <<0>>, status |-> 144, bytes |-> <<60, 64>>],
       [delta |-> <<1>>, status |-> 144, bytes |-> <<60, 0>>],
       [delta |-> <<2>>, status |-> 128, bytes |-> <<60, 64>>],
       [delta |-> <<0>>, status |-> 145, bytes |-> <<62, 80>>],
       [delta |-> <<129, 1>>, status |-> 192, bytes |-> <<5>>],
       [delta |-> <<0>>, status |-> 176, bytes |-> <<7, 100>>],
       [delta |-> <<3>>, status |-> 224, bytes |-> <<0, 64>>],
       [delta |-> <<0>>, status |-> 255, bytes |-> <<47, 0>>],
       [delta |-> <<1>>, status |-> 240, bytes |-> <<1, 126>>] >>

Streams == UNION {[1..n -> 1..Len(StreamEvents)] : n \in 0..MaxStream}

IsChannelStatus(status) == status >= 128 /\ status < 240

\* the bytes of the stream es from event i on.  The status byte of a
\* channel event is left out when omit allows it: "never"; "adjacent", when
\* the event before it is a channel event of the same status; "any", when
\* the last channel event before it has the same status.
RECURSIVE EncodeStream(_, _, _, _, _)
EncodeStream(es, i, omit, lastChannel, prev) ==
    IF i > Len(es) THEN <<>>
    ELSE LET e == StreamEvents[es[i]]
             repeated == /\ IsChannelStatus(e.status)
                         /\ \/ omit = "any" /\ e.status = lastChannel
                            \/ omit = "adjacent" /\ e.status = prev
             next == IF IsChannelStatus(e.status) THEN e.status ELSE lastChannel
         IN  e.delta \o (IF repeated THEN <<>> ELSE <<e.status>>) \o e.bytes
             \o EncodeStream(es, i + 1, omit, next, e.status)

InitRunning ==
    /\ Idle
    /\ tempo_events = <<>>
    /\ pc = "call"
    /\ exc = "none"
    /\ result = None
    /\ offset = 0
    /\ \E es \in Streams, omit \in {"adjacent", "any"} :
          /\ arg = [es |-> es, omit |-> omit]
          /\ data = EncodeStream(es, 1, omit, 0, 0)

\* the same loop over the stream as given and over it with every status written
CallWhileLoop ==
    /\ pc = "call"
    /\ LET explicit == EncodeStream(arg.es, 1, "never", 0, 0)
       IN  result' = [running |-> WhileLoop(data, 0, Len(data), 0, 0, <<>>),
                      explicit |-> WhileLoop(explicit, 0, Len(explicit), 0, 0, <<>>)]
    /\ pc' = "returned"
    /\ UNCHANGED <<data, target_duration, exc, stdout, offset, num_tracks,
                   ticks_per_quarter, track_idx, track_end, absolute_ticks,
                   last_status, track_events, tracks, all_events, tempo_events,
                   ret, output_file, arg>>
    /\ UNCHANGED dawVars

NextRunning == CallWhileLoop

SpecRunning == InitRunning /\ [][NextRunning]_vars

\* C1: a stream with the repeated channel status bytes left out decodes to
\* exactly the events (kind, channel, payload, tick position) of the same
\* stream with every status byte written, one event per event of the stream.
RunningStatusEquivalent ==
    pc = "returned" =>
        /\ result.running.exc = "none" /\ ~result.running.brk
        /\ result.running.events = result.explicit.events
        /\ Len(result.running.events) = Len(arg.es)
        /\ result.running.offset = Len(data)

\* a stream that leaves a status byte out, after an event that is no channel
\* event
RunningStatusEquivalentWitness ==
    /\ pc = "returned"
    /\ Len(data) < Len(EncodeStream(arg.es, 1, "never", 0, 0))
    /\ \E i \in 1..Len(arg.es) : StreamEvents[arg.es[i]].status = 255
    /\ Len(result.running.events) = MaxStream
    /\ result.running.events[MaxStream].type = "noteOff"

(***************************************************************************)
(* ticks_to_seconds applied on its own, over the tempo maps parse_midi     *)
(* builds.                                                                 *)
(***************************************************************************)
\* Set Tempo events in a file: at most MaxTempo
MaxTempo == 2

\* calls of ticks_to_seconds on one tempo map: at most MaxCalls
MaxCalls == 2

TempoTicks == {0, 2, 480}

TempoRates == {0, DefaultTempo, 1000000}

Divisions == {0, 1, 480}

QueryTicks == {0, 1, 3, 480, 960}

SetTempo(tick, rate) ==
    [absoluteTicks |-> tick, channel |-> 15, type |-> "meta", metaType |-> 81,
     subType |-> "setTempo", tempo |-> rate]

TempoLists ==
    UNION {[1..n -> {SetTempo(t, r) : t \in TempoTicks, r \in TempoRates}] :
              n \in 0..MaxTempo}

InitTicks ==
    /\ DawIdle
    /\ target_duration = None
    /\ stdout = <<>>
    /\ num_tracks = 0
    /\ track_idx = 0
    /\ track_end = 0
    /\ absolute_ticks = 0
    /\ last_status = 0
    /\ track_events = <<>>
    /\ tracks = <<>>
    /\ ret = None
    /\ output_file = None
    /\ data = <<>>
    /\ offset = 0
    /\ pc = "call"
    /\ exc = "none"
    /\ arg = <<>>
    /\ result = <<>>
    /\ ticks_per_quarter \in Divisions
    /\ all_events \in TempoLists
    /\ tempo_events = BuildTempoEvents(all_events)

\* one more call: arg and result list the positions and the times returned
CallTicksToSeconds ==
    /\ pc = "call"
    /\ tempo_events # <<>>
    /\ Len(arg) < MaxCalls
    /\ \E ticks \in QueryTicks :
          LET r == ticks_to_seconds(ticks, tempo_events, ticks_per_quarter)
          IN  /\ arg' = Append(arg, ticks)
              /\ exc' = r.exc
              /\ pc' = IF r.exc = "none" THEN "call" ELSE "raised"
              /\ result' = IF r.exc = "none" THEN Append(result, r.value) ELSE result
              /\ tempo_events' = r.tempo_events
    /\ UNCHANGED <<data, target_duration, stdout, offset, num_tracks,
                   ticks_per_quarter, track_idx, track_end, absolute_ticks,
                   last_status, track_events, tracks, all_events,
                   ret, output_file>>
    /\ UNCHANGED dawVars

NextTicks == CallTicksToSeconds

SpecTicks == InitTicks /\ [][NextTicks]_vars

\* the ticks of [0, ticks) that lie under point i of the tempo map te: from
\* its own tick up to the next point's tick, for the last point without end
TicksUnder(te, i, ticks) ==
    LET from == te[i].absoluteTicks
        to == IF i < Len(te) THEN Min(ticks, te[i + 1].absoluteTicks) ELSE ticks
    IN  IF to > from THEN to - from ELSE 0

RECURSIVE StepSum(_, _, _, _)
StepSum(te, i, ticks, tpq) ==
    IF i > Len(te) THEN RatZero
    ELSE RatAdd(Rat(TicksUnder(te, i, ticks) * te[i].tempo, tpq * 1000000),
                StepSum(te, i + 1, ticks, tpq))

\* every call made so far returned the step sum of its position
ReturnsStepSum ==
    \A k \in DOMAIN result :
        result[k] = StepSum(tempo_events, 1, arg[k], ticks_per_quarter)

SinglePoint480 ==
    /\ tempo_events = <<[absoluteTicks |-> 0, tempo |-> DefaultTempo]>>
    /\ ticks_per_quarter = 480

\* C9 as stated: ticks_to_seconds returns the step sum, and with the single
\* point (0, 500000) and ticksPerQuarterNote 480, tick 480 maps to 1.0.
StepSumAndOneSecondAt480 ==
    /\ ReturnsStepSum
    /\ SinglePoint480 =>
          \A k \in DOMAIN result : arg[k] = 480 => result[k] = Rat(1, 1)

\* C9 as amended: ticks_to_seconds returns the step sum, and with the single
\* point (0, 500000) and ticksPerQuarterNote 480, tick 480 maps to 0.5 and
\* tick 960 to 1.0.
StepSumAndHalfSecondAt480 ==
    /\ ReturnsStepSum
    /\ SinglePoint480 =>
          \A k \in DOMAIN result :
              /\ arg[k] = 480 => result[k] = Rat(1, 2)
              /\ arg[k] = 960 => result[k] = Rat(1, 1)

\* tick 480 asked of the single default point at 480 ticks per quarter note
StepSumWitness ==
    /\ SinglePoint480
    /\ \E k \in DOMAIN result : arg[k] = 480 /\ result[k] = Rat(1, 2)

\* C10: for every time division 0..32767 and every tempo map built from a
\* file, ticks_to_seconds returns for every position and is monotonic.
DefinedAndMonotonic ==
    /\ exc = "none"
    /\ Len(result) = Len(arg)
    /\ \A j, k \in DOMAIN result :
          arg[j] <= arg[k] => RatLeq(result[j], result[k])

\* the Set Tempo events that no later event of the same tick follows
RECURSIVE KeepLast(_)
KeepLast(events) ==
    IF events = <<>> THEN <<>>
    ELSE IF \E j \in 2..Len(events) :
                events[j].absoluteTicks = Head(events).absoluteTicks
    THEN KeepLast(Tail(events))
    ELSE <<Head(events)>> \o KeepLast(Tail(events))

\* the rate in force at a tick: that of the last event, in file order, of
\* the greatest tick that is not after it, the default before every event
RateAt(ticks) ==
    LET kept == KeepLast(all_events)
        before == {i \in DOMAIN kept : kept[i].absoluteTicks <= ticks}
    IN  IF before = {} THEN DefaultTempo
        ELSE kept[CHOOSE i \in before :
                     \A j \in before :
                        kept[j].absoluteTicks <= kept[i].absoluteTicks].tempo

\* no Set Tempo event lies strictly between the two ticks
SameStretch(from, to) ==
    \A i \in DOMAIN all_events :
        ~(from < all_events[i].absoluteTicks /\ all_events[i].absoluteTicks < to)

\* C25: of the Set Tempo events that share a tick the last one, in file
\* order, overrides the others: the others contribute no elapsed time, so
\* every position is timed as if they were not in the file, and the ticks
\* from that tick up to the next tempo point are timed at the last one's
\* rate.
LaterTempoOverrides ==
    /\ \A k \in DOMAIN result :
          result[k] = StepSum(BuildTempoEvents(KeepLast(all_events)), 1, arg[k],
                              ticks_per_quarter)
    /\ \A j, k \in DOMAIN result :
          (arg[j] <= arg[k] /\ SameStretch(arg[j], arg[k])) =>
              result[k] = RatAdd(result[j],
                                 Rat((arg[k] - arg[j]) * RateAt(arg[j]),
                                     ticks_per_quarter * 1000000))

\* two Set Tempo events at tick 2, the later one at half the default speed,
\* and the positions 3 and 480 asked after them
LaterTempoOverridesWitness ==
    /\ Len(all_events) = 2
    /\ all_events[1].absoluteTicks = 2
    /\ all_events[2].absoluteTicks = 2
    /\ all_events[1].tempo = 0
    /\ all_events[2].tempo = 1000000
    /\ ticks_per_quarter = 480
    /\ arg = <<3, 480>>
    /\ Len(result) = 2

\* the events of a chunk body decoded on its own, from a fresh context
DecodedAlone(body) == WhileLoop(body, 0, Len(body), 0, 0, <<>>).events

\* C22: the running status is reset at the start of every track: no event
\* of a track is decoded with a status byte or a position inherited from
\* the track before, and in a file whose chunks are well formed every
\* decoded track is what its chunk's bytes decode to on their own.
TracksIndependent ==
    /\ (pc = "while_event" /\ track_events = <<>>) =>
          (last_status = 0 /\ absolute_ticks = 0)
    /\ arg.defect.kind = "none" =>
          \A t \in DOMAIN tracks :
             tracks[t] = DecodedAlone(Body(arg.es, arg.cuts[t - 1], arg.cuts[t]))

\* the first track ends on a Note On and the second begins with a data
\* byte in status position: it is kept with no event from it
TracksIndependentWitness ==
    /\ arg.defect.kind = "none"
    /\ Len(tracks) = 2
    /\ tracks[1] # <<>>
    /\ tracks[1][Len(tracks[1])].type = "noteOn"
    /\ arg.cuts[1] < Len(arg.es)
    /\ arg.es[arg.cuts[1] + 1] = 2
    /\ tracks[2] = <<>>
    /\ Printed("Error: Running status used without previous status")

(***************************************************************************)
(* The while loop of parse_midi applied on its own to the bytes of one     *)
(* chunk body: an optional Note On, then a delta of 0, any status byte     *)
(* from 0x80 to 0xFF and a few bytes after it.                             *)
(***************************************************************************)
\* bytes after the status byte: at most MaxTail
MaxTail == 3

StatusBytes == 128..255

\* velocity or length 0, length 1 or an unassigned meta type, the Track Name
\* meta type, a data byte, a Note On status
TailBytes == {0, 1, 3, 64, 144}

Tails == UNION {[1..n -> TailBytes] : n \in 0..MaxTail}

\* nothing, or delta 0, Note On on channel 0, note 60, velocity 64
Prefixes == {<<>>, <<0, 144, 60, 64>>}

InitDecode ==
    /\ DawIdle
    /\ target_duration = None
    /\ stdout = <<>>
    /\ num_tracks = 1
    /\ ticks_per_quarter = 480
    /\ track_idx = 0
    /\ absolute_ticks = 0
    /\ last_status = 0
    /\ track_events = <<>>
    /\ tracks = <<>>
    /\ all_events = <<>>
    /\ tempo_events = <<>>
    /\ ret = None
    /\ output_file = None
    /\ result = None
    /\ pc = "while_event"
    /\ exc = "none"
    /\ offset = 0
    /\ \E prefix \in Prefixes, status \in StatusBytes, tail \in Tails :
          /\ data = prefix \o <<0, status>> \o tail
          /\ arg = [at |-> Len(prefix), status |-> status]
    /\ track_end = Len(data)

NextDecode == EventStep \/ TrackEnd

SpecDecode == InitDecode /\ [][NextDecode]_vars

EventKinds ==
    {"noteOn", "noteOff", "polyphonicKeyPressure", "controlChange",
     "programChange", "channelPressure", "pitchBend", "meta", "sysex"}

HasKind(e) == "type" \in DOMAIN e /\ e.type \in EventKinds

\* C21: every event of a decoded track has a kind from the closed set: for
\* every status byte from 0x80 to 0xFF the decoder emits an event with one
\* of the nine kinds or fails, and never emits an event without a kind.
EveryEventHasKind ==
    \A i \in DOMAIN track_events : HasKind(track_events[i])

\* the number of the event whose status byte the file was built around
EventNo == arg.at \div 4 + 1

\* that event has been decoded and appended
Decoded == Len(track_events) >= EventNo

\* the decode of that event raised
FailedThere == pc = "raised" /\ offset = arg.at

\* the event is a meta event with a subtype other than Set Tempo, Track
\* Name and End of Track, a one-byte length and its whole payload in the
\* chunk
UnknownMeta ==
    /\ arg.status = 255
    /\ Len(data) >= arg.at + 4
    /\ data[arg.at + 3] \notin {81, 3, 47}
    /\ data[arg.at + 4] < 128
    /\ arg.at + 4 + data[arg.at + 4] <= Len(data)

\* the fields every event has, and those that name the kind of a meta event
PlainFields == {"absoluteTicks", "channel", "type", "metaType", "subType"}

\* some field of the event holds the payload bytes
Carries(e, payload) == \E f \in DOMAIN e \ PlainFields : e[f] = payload

\* the decode does not fail and continues right after the payload
UnknownMetaSkipped ==
    UnknownMeta =>
        /\ ~FailedThere
        /\ Decoded =>
              /\ track_events[EventNo].type = "meta"
              /\ track_events[EventNo].metaType = data[arg.at + 3]
        /\ (Len(track_events) = EventNo /\ pc = "while_event") =>
              offset = arg.at + 4 + data[arg.at + 4]

\* C23: a meta event with a subtype other than Set Tempo, Track Name and
\* End of Track is decoded without failing, appears in its track as a meta
\* event with its subtype byte and its raw payload bytes, and the decode
\* continues with the byte right after the payload.
UnknownMetaKept ==
    /\ UnknownMetaSkipped
    /\ (UnknownMeta /\ Decoded /\ data[arg.at + 4] > 0) =>
          Carries(track_events[EventNo],
                  Slice(data, arg.at + 4, arg.at + 4 + data[arg.at + 4]))

\* the event is a Note On status with its two data bytes in the chunk and a
\* velocity of 0 to 127
NoteOnStatus ==
    /\ arg.status \div 16 = 9
    /\ Len(data) >= arg.at + 4
    /\ data[arg.at + 4] <= 127

\* C29: a Note On status with velocity 0 is emitted as a Note Off with the
\* same note and channel and velocity 0, one with velocity 1 to 127 as a
\* Note On with that velocity, and both consume exactly two data bytes.
NoteOnNormalized ==
    NoteOnStatus =>
        /\ ~FailedThere
        /\ Decoded =>
              track_events[EventNo] =
                  [absoluteTicks |-> 0,
                   channel |-> arg.status % 16,
                   type |-> IF data[arg.at + 4] = 0 THEN "noteOff" ELSE "noteOn",
                   note |-> data[arg.at + 3],
                   velocity |-> data[arg.at + 4]]
        /\ (Len(track_events) = EventNo /\ pc = "while_event") =>
              offset = arg.at + 4

\* a Note On of velocity 0 on channel 5, decoded after another event
NoteOnNormalizedWitness ==
    /\ NoteOnStatus
    /\ arg.status = 149
    /\ arg.at = 4
    /\ data[arg.at + 4] = 0
    /\ Decoded
    /\ track_events[EventNo].type = "noteOff"

\* the event is a System Exclusive status with a one-byte length in the chunk
SysexStatus ==
    /\ arg.status \in {240, 247}
    /\ Len(data) >= arg.at + 3
    /\ data[arg.at + 3] < 128

\* the running status before the event: that of the Note On before it, if any
StatusBefore == IF arg.at = 0 THEN 0 ELSE 144

\* C30: for a System Exclusive status the decoder reads the length L and
\* advances exactly L bytes, keeps no payload byte in the event, leaves the
\* running status as it was, and the next event is decoded from the byte
\* right after the payload.
SysexSkipped ==
    SysexStatus =>
        /\ ~FailedThere
        /\ Decoded =>
              track_events[EventNo] =
                  [absoluteTicks |-> 0, channel |-> arg.status % 16,
                   type |-> "sysex"]
        /\ (Len(track_events) = EventNo /\ pc = "while_event") =>
              /\ offset = arg.at + 3 + data[arg.at + 3]
              /\ last_status = StatusBefore

\* a System Exclusive event with one payload byte, decoded after a Note On
SysexSkippedWitness ==
    /\ SysexStatus
    /\ arg.at = 4
    /\ data[arg.at + 3] = 1
    /\ Len(data) >= arg.at + 4
    /\ Len(track_events) = EventNo
    /\ pc = "while_event"
    /\ last_status = 144

(***************************************************************************)
(* A model of dawproject_to_json.py: get_tempo_map, beats_to_seconds and   *)
(* the main function that collects the notes of the arrangement, orders    *)
(* each track and writes the tracks.                                       *)
(*                                                                         *)
(* An element of the project's XML tree is a record of its tag, its        *)
(* attributes (a function from names to strings) and its children.  The    *)
(* string of an attribute that the program converts with float() or int()  *)
(* is a sequence of characters; an id or a name is a plain string.         *)
(***************************************************************************)
RatNeg(a) == [n |-> -a.n, d |-> a.d]

RatSub(a, b) == RatAdd(a, RatNeg(b))

RatAbs(a) == IF a.n < 0 THEN RatNeg(a) ELSE a

\* a / b for b # 0
RatQuot(a, b) ==
    IF b.n > 0 THEN RatMul(a, [n |-> b.d, d |-> b.n])
    ELSE RatMul(a, [n |-> -b.d, d |-> -b.n])

\* int(x) of a float: truncation towards zero
Trunc(a) == IF a.n >= 0 THEN a.n \div a.d ELSE -((-a.n) \div a.d)

\* a value v that is not None, as what dict.get or find returns
Some(v) == [none |-> FALSE, value |-> v]

DigitChars == <<"0", "1", "2", "3", "4", "5", "6", "7", "8", "9">>

IsDigit(c) == \E k \in DOMAIN DigitChars : DigitChars[k] = c

DigitVal(c) == (CHOOSE k \in DOMAIN DigitChars : DigitChars[k] = c) - 1

RECURSIVE DigitsToInt(_)
DigitsToInt(s) ==
    IF s = <<>> THEN 0
    ELSE DigitsToInt(SubSeq(s, 1, Len(s) - 1)) * 10 + DigitVal(s[Len(s)])

RECURSIVE Pow10(_)
Pow10(k) == IF k = 0 THEN 1 ELSE 10 * Pow10(k - 1)

\* float(s) of a string: an optional sign, digits, an optional point and
\* digits, at least one digit in all; anything else raises ValueError.
\* (float also takes exponents, inf, nan, blanks and underscores: the
\* strings of the inputs here have only digits, signs, points and letters
\* of "abc".)
FloatOfString(s) ==
    LET signed == s # <<>> /\ s[1] \in {"-", "+"}
        body == IF signed THEN Tail(s) ELSE s
        dots == {i \in DOMAIN body : body[i] = "."}
        dot == IF dots = {} THEN Len(body) + 1 ELSE CHOOSE i \in dots : TRUE
        whole == SubSeq(body, 1, dot - 1)
        frac == SubSeq(body, dot + 1, Len(body))
        digits == whole \o frac
    IN  IF \/ Cardinality(dots) > 1
           \/ digits = <<>>
           \/ \E i \in DOMAIN digits : ~IsDigit(digits[i])
        THEN [exc |-> "ValueError", value |-> RatZero]
        ELSE LET magnitude == Rat(DigitsToInt(digits), Pow10(Len(frac)))
             IN  [exc |-> "none",
                  value |-> IF signed /\ s[1] = "-" THEN RatNeg(magnitude)
                            ELSE magnitude]

\* int(s) of a string: an optional sign and digits
IntOfString(s) ==
    LET signed == s # <<>> /\ s[1] \in {"-", "+"}
        body == IF signed THEN Tail(s) ELSE s
    IN  IF body = <<>> \/ \E i \in DOMAIN body : ~IsDigit(body[i])
        THEN [exc |-> "ValueError", value |-> 0]
        ELSE [exc |-> "none",
              value |-> IF signed /\ s[1] = "-" THEN -DigitsToInt(body)
                        ELSE DigitsToInt(body)]

\* attrib.get(name): None when the attribute is missing
Get(attrib, name) ==
    IF name \in DOMAIN attrib THEN Some(attrib[name]) ELSE None

\* float(attrib.get(name)): float(None) raises TypeError
FloatAttr(attrib, name) ==
    IF name \in DOMAIN attrib THEN FloatOfString(attrib[name])
    ELSE [exc |-> "TypeError", value |-> RatZero]

\* float(attrib.get(name, default)) for a numeric default
FloatAttrOr(attrib, name, default) ==
    IF name \in DOMAIN attrib THEN FloatOfString(attrib[name])
    ELSE [exc |-> "none", value |-> default]

\* an element of the tree
Element(tag, attrib, children) ==
    [tag |-> tag, attrib |-> attrib, children |-> children]

\* elem.findall(tag): the direct children with the tag, in document order
FindAll(elem, tag) ==
    LET HasTag(c) == c.tag = tag
    IN  SelectSeq(elem.children, HasTag)

\* elem.find(tag): the first direct child with the tag, or None
Find(elem, tag) ==
    LET found == FindAll(elem, tag)
    IN  IF found = <<>> THEN None ELSE found[1]

\* the elements elems and all their descendants, in document order
RECURSIVE IterAll(_)
IterAll(elems) ==
    IF elems = <<>> THEN <<>>
    ELSE <<Head(elems)>> \o IterAll(Head(elems).children) \o IterAll(Tail(elems))

\* elem.iter(): the element and all its descendants, in document order
Iter(elem) == IterAll(<<elem>>)

\* lines 37-38, 46-47: the points of the elements pts read in order; the
\* first attribute that float() refuses raises
RECURSIVE ReadPoints(_, _)
ReadPoints(pts, points) ==
    IF pts = <<>> THEN [exc |-> "none", points |-> points]
    ELSE LET time == FloatAttr(Head(pts).attrib, "time")
             value == FloatAttr(Head(pts).attrib, "value")
         IN  IF time.exc # "none" THEN [exc |-> time.exc, points |-> points]
             ELSE IF value.exc # "none" THEN [exc |-> value.exc, points |-> points]
             ELSE ReadPoints(Tail(pts), Append(points, <<time.value, value.value>>))

\* p placed after every point of the sorted s whose time is not greater
RECURSIVE InsertByTime(_, _)
InsertByTime(s, p) ==
    IF s = <<>> THEN <<p>>
    ELSE IF RatLeq(s[Len(s)][1], p[1]) THEN Append(s, p)
    ELSE Append(InsertByTime(SubSeq(s, 1, Len(s) - 1), p), s[Len(s)])

\* points.sort(key=lambda x: x[0]): a stable sort
RECURSIVE SortByTime(_)
SortByTime(s) ==
    IF s = <<>> THEN <<>>
    ELSE InsertByTime(SortByTime(SubSeq(s, 1, Len(s) - 1)), s[Len(s)])

\* lines 28-30: the elements of the tree, in document order, that have a
\* Target child whose parameter attribute equals tempo_id
TempoAutomations(r, tempo_id) ==
    LET IsAutomation(elem) ==
            LET target == Find(elem, "Target")
            IN  target # None /\ Get(target.attrib, "parameter") = tempo_id
    IN  SelectSeq(Iter(r), IsAutomation)

\* lines 15-51
get_tempo_map(r) ==
    LET transport == Find(r, "Transport")
        tempo_elem == IF transport = None THEN None ELSE Find(transport, "Tempo")
        bpm == IF tempo_elem = None THEN [exc |-> "none", value |-> Rat(120, 1)]
               ELSE FloatAttrOr(tempo_elem.attrib, "value", Rat(120, 1))
        tempo_id == IF tempo_elem = None THEN None ELSE Get(tempo_elem.attrib, "id")
        found == TempoAutomations(r, tempo_id)
        raw == IF found = <<>> THEN <<>>
               ELSE LET elem == found[1]
                        pts_container == Find(elem, "Points")
                    IN  FindAll(elem, "RealPoint")
                        \o (IF pts_container = None THEN <<>>
                            ELSE pts_container.children)
        read == ReadPoints(raw, <<>>)
    IN  IF bpm.exc # "none"
        THEN [exc |-> bpm.exc, initial_bpm |-> None, points |-> <<>>]
        ELSE IF read.exc # "none"
        THEN [exc |-> read.exc, initial_bpm |-> None, points |-> <<>>]
        ELSE [exc |-> "none", initial_bpm |-> bpm.value,
              points |-> SortByTime(read.points)]

(***************************************************************************)
(* beats_to_seconds.  Its result is a sum of fractions and of terms        *)
(* c * math.log(x) with c and x fractions; the logarithm is not computed:  *)
(* a time is kept as the fraction q and the list of its logarithm terms,   *)
(* in the order the code adds them.                                        *)
(***************************************************************************)
Time(q) == [q |-> q, logs |-> <<>>]

TimeAdd(total, q) == [total EXCEPT !.q = RatAdd(@, q)]

TimeAddLog(total, c, x) ==
    [total EXCEPT !.logs = Append(@, [c |-> c, x |-> x])]

\* a bound of a time, the upper one or the lower one: the natural logarithm
\* lies strictly between 1 - 1/x and x - 1 for every x > 0 other than 1, so
\* the bounds of a time with a logarithm term are strict
RECURSIVE TimeBoundSum(_, _, _)
TimeBoundSum(time, upper, i) ==
    IF i = 0 THEN time.q
    ELSE LET c == time.logs[i].c
             x == time.logs[i].x
         IN  RatAdd(TimeBoundSum(time, upper, i - 1),
                    RatMul(c, IF (c.n >= 0) = upper
                              THEN RatSub(x, Rat(1, 1))
                              ELSE RatSub(Rat(1, 1), RatQuot(Rat(1, 1), x))))

TimeBound(time, upper) == TimeBoundSum(time, upper, Len(time.logs))

\* a < b for two times: with the same logarithm terms the fractions decide,
\* otherwise a is below b when a's upper bound is not above b's lower bound
TimeLess(a, b) ==
    IF a.logs = b.logs THEN RatLess(a.q, b.q)
    ELSE RatLeq(TimeBound(a, TRUE), TimeBound(b, FALSE))

Returns(total) == [exc |-> "none", value |-> total]

Throws(e) == [exc |-> e, value |-> Time(RatZero)]

\* the 0.0001 the code compares a rate difference or a slope with
Epsilon == Rat(1, 10000)

\* a plausible slip: a ramp integrated as if its start rate held throughout
AddRampAsConstant(total, slope, dur, v_to, v1) ==
    IF v1.n = 0 THEN Throws("ZeroDivisionError")
    ELSE Returns(TimeAdd(total, RatQuot(RatMul(dur, Rat(60, 1)), v1)))

\* total_time += dur * 60.0 / v1
AddConstant(total, dur, v1) ==
    IF v1.n = 0 THEN Throws("ZeroDivisionError")
    ELSE Returns(TimeAdd(total, RatQuot(RatMul(dur, Rat(60, 1)), v1)))

\* total_time += (60.0 / slope) * math.log(v_to / v1), for slope # 0:
\* the division by a zero v1 raises ZeroDivisionError, math.log of a
\* number that is not positive raises ValueError
AddRamp(total, slope, dur, v_to, v1) ==
    IF v1.n = 0 THEN Throws("ZeroDivisionError")
    ELSE LET x == RatQuot(v_to, v1)
         IN  IF x.n <= 0 THEN Throws("ValueError")
             ELSE Returns(TimeAddLog(total, RatQuot(Rat(60, 1), slope), x))

\* a plausible slip: nothing added for the beats past the last point
AfterSegmentsNothing(beats, sorted_points, total) == Returns(total)

\* lines 203-209: after the loop, the time past the last point
AfterSegments(beats, sorted_points, total) ==
    LET last_t == sorted_points[Len(sorted_points)][1]
        last_v == sorted_points[Len(sorted_points)][2]
    IN  IF RatLess(last_t, beats)
        THEN AddConstant(total, RatSub(beats, last_t), last_v)
        ELSE Returns(total)

\* a plausible slip: the rate of the first of the samples that share the beat
SegmentStartRateOfFirst(sorted_points, i) ==
    LET same == {j \in 1..i : sorted_points[j][1] = sorted_points[i][1]}
    IN  sorted_points[CHOOSE j \in same : \A k \in same : j <= k][2]

\* line 172: v1 of t1, v1 = sorted_points[i]
SegmentStartRate(sorted_points, i) == sorted_points[i][2]

\* lines 171-201: the loop over the pairs of consecutive points, from pair i
RECURSIVE SegmentLoop(_, _, _, _)
SegmentLoop(beats, sorted_points, i, total) ==
    IF i > Len(sorted_points) - 1
    THEN AfterSegments(beats, sorted_points, total)
    ELSE
    LET t1 == sorted_points[i][1]
        v1 == SegmentStartRate(sorted_points, i)
        t2 == sorted_points[i + 1][1]
        v2 == sorted_points[i + 1][2]
    IN  IF RatLess(beats, t1)
        THEN AfterSegments(beats, sorted_points, total)
        ELSE IF RatLeq(t2, beats)
        THEN \* the whole segment
             LET dur == RatSub(t2, t1)
                 added ==
                     IF ~RatLess(RatZero, dur) THEN Returns(total)
                     ELSE IF RatLess(RatAbs(RatSub(v2, v1)), Epsilon)
                     THEN AddConstant(total, dur, v1)
                     ELSE AddRamp(total, RatQuot(RatSub(v2, v1), dur), dur, v2, v1)
             IN  IF added.exc # "none" THEN added
                 ELSE SegmentLoop(beats, sorted_points, i + 1, added.value)
        ELSE \* the segment beats is in
             LET dur == RatSub(beats, t1)
             IN  IF ~RatLess(RatZero, dur) THEN Returns(total)
                 ELSE LET slope == RatQuot(RatSub(v2, v1), RatSub(t2, t1))
                          v_end == RatAdd(v1, RatMul(slope, dur))
                      IN  IF RatLess(RatAbs(slope), Epsilon)
                          THEN AddConstant(total, dur, v1)
                          ELSE AddRamp(total, slope, dur, v_end, v1)

\* lines 164-209 (lines 54-145 build a list that nothing reads)
\* sorted_points: a new list, the initial rate at beat 0 unless a point is
\* there, then the points of tempo_points
SortedPoints(bpm, points) ==
    IF points = <<>> \/ RatLess(RatZero, points[1][1])
    THEN <<<<RatZero, bpm>>>> \o points
    ELSE points

\* a call that has returned or raised: sorted_points is a list of its own,
\* so tempo_points after the call is the list before it
AfterCall(r, points) ==
    [exc |-> r.exc, value |-> r.value, tempo_points |-> points]

beats_to_seconds(beats, bpm, points) ==
    AfterCall(SegmentLoop(beats, SortedPoints(bpm, points), 1, Time(RatZero)),
              points)

(***************************************************************************)
(* beats_to_seconds applied on its own to one tempo map, as main calls it: *)
(* with the rate and the sorted points get_tempo_map returned.             *)
(***************************************************************************)
\* points of a tempo map: at most MaxPoints
MaxPoints == 2

PointBeats == {Rat(0, 1), Rat(1, 1), Rat(2, 1)}

Rates == {Rat(60, 1), Rat(120, 1), Rat(0, 1), Rat(-60, 1)}

QueryBeats == {Rat(-1, 1), Rat(0, 1), Rat(1, 2), Rat(1, 1), Rat(3, 1)}

\* the lists get_tempo_map can return: in ascending order of time
PointLists ==
    {ps \in UNION {[1..n -> PointBeats \X Rates] : n \in 0..MaxPoints} :
        \A i, j \in DOMAIN ps : i <= j => RatLeq(ps[i][1], ps[j][1])}

\* the variables of midi_to_json_custom.py alone
midiVars == <<data, target_duration, offset, num_tracks, ticks_per_quarter,
              track_idx, track_end, absolute_ticks, last_status, track_events,
              tracks, all_events, tempo_events, ret>>

\* midi_to_json_custom.py is not run
MidiIdle ==
    /\ data = <<>>
    /\ target_duration = None
    /\ offset = 0
    /\ num_tracks = 0
    /\ ticks_per_quarter = 0
    /\ track_idx = 0
    /\ track_end = 0
    /\ absolute_ticks = 0
    /\ last_status = 0
    /\ track_events = <<>>
    /\ tracks = <<>>
    /\ all_events = <<>>
    /\ tempo_events = <<>>
    /\ ret = None

InitBeats ==
    /\ MidiIdle
    /\ root = None
    /\ daw_tracks = <<>>
    /\ daw_track_events = <<>>
    /\ final_output = <<>>
    /\ output_file = None
    /\ stdout = <<>>
    /\ pc = "call"
    /\ exc = "none"
    /\ arg = <<>>
    /\ result = <<>>
    /\ initial_bpm \in Rates
    /\ tempo_points \in PointLists

\* one more call: arg and result list the positions and the times returned
CallBeatsToSeconds ==
    /\ pc = "call"
    /\ initial_bpm # None
    /\ Len(arg) < MaxCalls
    /\ \E beats \in QueryBeats :
          LET r == beats_to_seconds(beats, initial_bpm, tempo_points)
          IN  /\ arg' = Append(arg, beats)
              /\ exc' = r.exc
              /\ pc' = IF r.exc = "none" THEN "call" ELSE "raised"
              /\ result' = IF r.exc = "none" THEN Append(result, r.value) ELSE result
              /\ tempo_points' = r.tempo_points
    /\ UNCHANGED <<stdout, output_file, root, initial_bpm,
                   daw_tracks, daw_track_events, final_output>>
    /\ UNCHANGED midiVars

NextBeats == CallBeatsToSeconds

SpecBeats == InitBeats /\ [][NextBeats]_vars

(***************************************************************************)
(* The claims about beats_to_seconds.                                      *)
(***************************************************************************)
\* the points the rate is interpolated between: the initial rate put at
\* beat 0 when the map is empty or starts after beat 0
EffectivePoints ==
    IF tempo_points = <<>> \/ RatLess(RatZero, tempo_points[1][1])
    THEN <<<<RatZero, initial_bpm>>>> \o tempo_points
    ELSE tempo_points

\* the rates a call for beats integrates over: the two ends of every
\* segment that lies before beats, the start of the segment beats is in
\* and the rate interpolated at beats, and the last rate past the last point
RatesIntegrated(beats) ==
    LET P == EffectivePoints
        whole == {i \in 1..(Len(P) - 1) :
                     RatLeq(P[i + 1][1], beats) /\ RatLess(P[i][1], P[i + 1][1])}
        part == {i \in 1..(Len(P) - 1) :
                    RatLess(P[i][1], beats) /\ RatLess(beats, P[i + 1][1])}
        At(i) == RatAdd(P[i][2],
                        RatMul(RatQuot(RatSub(P[i + 1][2], P[i][2]),
                                       RatSub(P[i + 1][1], P[i][1])),
                               RatSub(beats, P[i][1])))
    IN  {P[i][2] : i \in whole \cup part}
        \cup {P[i + 1][2] : i \in whole}
        \cup {At(i) : i \in part}
        \cup (IF RatLess(P[Len(P)][1], beats) THEN {P[Len(P)][2]} ELSE {})

\* C15: beats_to_seconds fails with NonPositiveTempo whenever a rate it
\* integrates over (a segment's start or end rate, or the rate interpolated
\* at the queried position) is zero or negative; it never returns a time
\* computed from such a rate.  (Any exception of the call is taken for the
\* failure: the program has no error of that name.)
NonPositiveTempoFails ==
    \A k \in DOMAIN arg :
        (\E v \in RatesIntegrated(arg[k]) : RatLeq(v, RatZero)) =>
            /\ k = Len(arg)
            /\ pc = "raised"
            /\ exc \in {"NonPositiveTempo", "ZeroDivisionError", "ValueError"}

\* the map of one ramp, from 60 at beat 0 to 120 at beat 1
Ramp60To120 ==
    tempo_points = <<<<Rat(0, 1), Rat(60, 1)>>, <<Rat(1, 1), Rat(120, 1)>>>>

\* C16: for the ramp from beat 0 at 60 BPM to beat 1 at 120 BPM,
\* beats_to_seconds(1) is (60 / slope) * ln(v2 / v1) with slope 60, that is
\* 1 * ln(2), which is strictly more than 0.5 second and strictly less than
\* 1 second.
RampIsLogOfTwo ==
    Ramp60To120 =>
        \A k \in DOMAIN arg :
            arg[k] = Rat(1, 1) =>
                /\ k \in DOMAIN result
                /\ result[k] =
                       [q |-> RatZero,
                        logs |-> <<[c |-> RatQuot(Rat(60, 1), Rat(60, 1)),
                                    x |-> RatQuot(Rat(120, 1), Rat(60, 1))]>>]
                /\ result[k].logs # <<>>
                /\ RatLeq(Rat(1, 2), TimeBound(result[k], FALSE))
                /\ RatLeq(TimeBound(result[k], TRUE), Rat(1, 1))

\* the ramp has been queried at beat 1
RampIsLogOfTwoWitness ==
    /\ Ramp60To120
    /\ pc = "call"
    /\ \E k \in DOMAIN result : arg[k] = Rat(1, 1)

(***************************************************************************)
(* The two time mappers called again and again, each on its own tempo map: *)
(* ticks_to_seconds on a map parse_midi built, beats_to_seconds on a map   *)
(* get_tempo_map returned.                                                 *)
(***************************************************************************)
InitMappers == InitTicks \/ InitBeats

NextMappers == CallTicksToSeconds \/ CallBeatsToSeconds

SpecMappers == InitMappers /\ [][NextMappers]_vars

\* the calls that returned gave the same time for the same position
SameAnswers ==
    \A j, k \in DOMAIN result : arg[j] = arg[k] => result[j] = result[k]

\* a step leaves the tempo map, the division and the initial rate as they were
MapsKept ==
    UNCHANGED <<tempo_events, ticks_per_quarter, tempo_points, initial_bpm>>

MaxCurve == 3

CurveBeats == {Rat(0, 1), Rat(1, 1), Rat(3, 1)}

\* 60, 60.00015 and 120 beats per minute
CurveRates == {Rat(60, 1), Rat(1200003, 20000), Rat(120, 1)}

\* the lists get_tempo_map can return: in ascending order of time
CurveLists ==
    {ps \in UNION {[1..n -> CurveBeats \X CurveRates] : n \in 0..MaxCurve} :
        \A i, j \in DOMAIN ps : i <= j => RatLeq(ps[i][1], ps[j][1])}

InitCurve ==
    /\ MidiIdle
    /\ root = None
    /\ daw_tracks = <<>>
    /\ daw_track_events = <<>>
    /\ final_output = <<>>
    /\ output_file = None
    /\ stdout = <<>>
    /\ pc = "call"
    /\ exc = "none"
    /\ arg = <<>>
    /\ result = <<>>
    /\ initial_bpm = Rat(120, 1)
    /\ tempo_points \in CurveLists

NextCurve == CallBeatsToSeconds

SpecCurve == InitCurve /\ [][NextCurve]_vars

\* the curve beats_to_seconds integrates
Curve == SortedPoints(initial_bpm, tempo_points)

\* the segments of the curve that begin before the beat, have a positive
\* duration, and whose two sample rates differ by the threshold or more
RampsBefore(beats) ==
    {i \in 1..(Len(Curve) - 1) :
        /\ RatLess(Curve[i][1], Curve[i + 1][1])
        /\ RatLess(Curve[i][1], beats)
        /\ ~RatLess(RatAbs(RatSub(Curve[i + 1][2], Curve[i][2])), Epsilon)}

\* C24: a segment contributes by the constant-rate formula exactly when its
\* two sample rates differ by less than 0.0001 and by the logarithmic
\* formula otherwise, whether the queried beat covers the whole segment or
\* ends inside it: a returned time has one logarithm term for every segment
\* begun whose rates differ by the threshold or more, and no other.
SameChoiceInsideSegment ==
    \A k \in DOMAIN result :
        Len(result[k].logs) = Cardinality(RampsBefore(arg[k]))

\* the samples of the curve that close a group of samples sharing a beat
JumpEnds ==
    {i \in 2..Len(Curve) :
        /\ Curve[i][1] = Curve[i - 1][1]
        /\ i < Len(Curve) => Curve[i + 1][1] # Curve[i][1]}

\* the first sample of the group that sample i closes
JumpStart(i) ==
    CHOOSE j \in 1..i :
        /\ Curve[j][1] = Curve[i][1]
        /\ \A k \in 1..i : Curve[k][1] = Curve[i][1] => j <= k

\* the time a adds to the time b it continues
TimeSince(a, b) ==
    [q |-> RatSub(a.q, b.q),
     logs |-> SubSeq(a.logs, Len(b.logs) + 1, Len(a.logs))]

\* the time from beat from to beat to on the curve made of the points,
\* the initial rate before them
Elapsed(points, from, to) ==
    TimeSince(beats_to_seconds(to, initial_bpm, points).value,
              beats_to_seconds(from, initial_bpm, points).value)

\* C27: samples that share a beat make a segment of no duration that adds
\* no time, and the rate of the last of them is where the next segment
\* starts: the time at their beat is the time of the curve cut at the first
\* of them, and the time elapsed from their beat on is the time the curve
\* that begins with the last of them elapses, so the time has no step at
\* the jump.
JumpAddsNoTime ==
    \A i \in JumpEnds : \A j \in DOMAIN result :
        arg[j] = Curve[i][1] =>
            /\ result[j] =
                  beats_to_seconds(arg[j], initial_bpm,
                                   SubSeq(Curve, 1, JumpStart(i))).value
            /\ \A k \in DOMAIN result :
                  RatLess(arg[j], arg[k]) =>
                      TimeSince(result[k], result[j])
                          = Elapsed(SubSeq(Curve, i, Len(Curve)), arg[j], arg[k])

\* the rate jumps from 60 to 120 at beat 1 and ramps back to 60 at beat 3;
\* the beats 1 and 3 are asked
JumpAddsNoTimeWitness ==
    /\ tempo_points = <<<<Rat(1, 1), Rat(60, 1)>>, <<Rat(1, 1), Rat(120, 1)>>,
                        <<Rat(3, 1), Rat(60, 1)>>>>
    /\ arg = <<Rat(1, 1), Rat(3, 1)>>
    /\ Len(result) = 2

\* the sum of the whole segments of the curve from segment i on: a segment
\* of positive duration adds dur * 60 / v1 when its rates differ by less
\* than the threshold and (60 / slope) * ln(v2 / v1) otherwise
RECURSIVE FullSegments(_, _)
FullSegments(i, total) ==
    IF i > Len(Curve) - 1 THEN total
    ELSE LET dur == RatSub(Curve[i + 1][1], Curve[i][1])
             v1 == Curve[i][2]
             v2 == Curve[i + 1][2]
         IN  IF ~RatLess(RatZero, dur) THEN FullSegments(i + 1, total)
             ELSE IF RatLess(RatAbs(RatSub(v2, v1)), Epsilon)
             THEN FullSegments(i + 1,
                               TimeAdd(total, RatQuot(RatMul(dur, Rat(60, 1)), v1)))
             ELSE FullSegments(i + 1,
                               TimeAddLog(total,
                                          RatQuot(Rat(60, 1),
                                                  RatQuot(RatSub(v2, v1), dur)),
                                          RatQuot(v2, v1)))

LastBeat == Curve[Len(Curve)][1]

LastRate == Curve[Len(Curve)][2]

\* C28: a beat past the last sample maps to the time at the last sample's
\* beat plus (beat - last beat) * 60 / last sample's BPM, and the last
\* sample's beat itself to the sum of all the whole segments.
ExtrapolatesAtLastRate ==
    \A k \in DOMAIN result :
        /\ arg[k] = LastBeat => result[k] = FullSegments(1, Time(RatZero))
        /\ RatLess(LastBeat, arg[k]) =>
              result[k] =
                  TimeAdd(FullSegments(1, Time(RatZero)),
                          RatQuot(RatMul(RatSub(arg[k], LastBeat), Rat(60, 1)),
                                  LastRate))

\* a ramp from 60 to 120 over the first beat, asked at beat 1 and at beat 3
ExtrapolatesAtLastRateWitness ==
    /\ tempo_points = <<<<Rat(0, 1), Rat(60, 1)>>, <<Rat(1, 1), Rat(120, 1)>>>>
    /\ arg = <<Rat(1, 1), Rat(3, 1)>>
    /\ Len(result) = 2
    /\ result[2] = TimeAdd(result[1], Rat(1, 1))

(***************************************************************************)
(* The main function of dawproject_to_json.py.  A dict is the sequence of  *)
(* its items in insertion order.                                           *)
(***************************************************************************)
\* the item of the dict d with the key, which may be None: Some(value), or
\* None when there is no such item
DictFind(d, key) ==
    LET hits == {i \in DOMAIN d : Some(d[i].key) = key}
    IN  IF hits = {} THEN None
        ELSE Some(d[CHOOSE i \in hits : TRUE].value)

\* d[key] = value: the item is replaced where it is, or added at the end
DictSet(d, key, value) ==
    IF \E i \in DOMAIN d : d[i].key = key
    THEN [i \in DOMAIN d |-> IF d[i].key = key
                             THEN [key |-> key, value |-> value] ELSE d[i]]
    ELSE Append(d, [key |-> key, value |-> value])

\* lines 229-232: tracks[track.attrib['id']] = track.attrib.get('name')
RECURSIVE TracksLoop(_, _)
TracksLoop(elems, d) ==
    IF elems = <<>> THEN [exc |-> "none", tracks |-> d]
    ELSE IF "id" \notin DOMAIN Head(elems).attrib
    THEN [exc |-> "KeyError", tracks |-> d]
    ELSE TracksLoop(Tail(elems),
                    DictSet(d, Head(elems).attrib["id"],
                            Get(Head(elems).attrib, "name")))

\* transposition_map.get(track_name, 0)
Transposition(track_name) == IF track_name = "Contrabass" THEN -12 ELSE 0

\* lines 263-272: the track name meta event
TrackNameEvent(track_name) ==
    [absoluteTicks |-> 0, channel |-> 15, type |-> "meta", metaType |-> 3,
     subType |-> "trackName", text |-> track_name, time |-> Time(RatZero)]

\* lines 297-317: the Note On and the Note Off appended for one note
NotePair(ticks_start, ticks_end, key, vel, rel, time_start, time_end) ==
    IF time_start.exc # "none" THEN [exc |-> time_start.exc, events |-> <<>>]
    ELSE IF time_end.exc # "none" THEN [exc |-> time_end.exc, events |-> <<>>]
    ELSE [exc |-> "none",
          events |->
             <<[absoluteTicks |-> ticks_start, channel |-> 13, type |-> "noteOn",
                note |-> key, velocity |-> Trunc(RatMul(vel, Rat(127, 1))),
                vel |-> vel, time |-> time_start.value],
               [absoluteTicks |-> ticks_end, channel |-> 13, type |-> "noteOff",
                note |-> key, velocity |-> Trunc(RatMul(rel, Rat(127, 1))),
                rel |-> rel, time |-> time_end.value]>>]

\* lines 291-295: the beats, the times and the ticks of one note
NoteTimed(abs_beat_start, abs_beat_end, key, vel, rel, bpm, points) ==
    NotePair(Trunc(RatMul(abs_beat_start, Rat(960, 1))),
             Trunc(RatMul(abs_beat_end, Rat(960, 1))),
             key, vel, rel,
             beats_to_seconds(abs_beat_start, bpm, points),
             beats_to_seconds(abs_beat_end, bpm, points))

\* lines 284-289, once the attributes of the note are read
NoteRead(note_start, note_dur, key, vel, rel, clip_start, clip_play_start, transpose, bpm, points) ==
    LET Raised(e) == e # "none"
        failed == SelectSeq(<<note_start.exc, note_dur.exc, key.exc, vel.exc,
                              rel.exc>>, Raised)
    IN  IF failed # <<>> THEN [exc |-> failed[1], events |-> <<>>]
        ELSE NoteTimed(RatAdd(clip_start, RatSub(note_start.value, clip_play_start)),
                       RatAdd(RatAdd(clip_start,
                                     RatSub(note_start.value, clip_play_start)),
                              note_dur.value),
                       key.value + transpose, vel.value, rel.value, bpm, points)

\* lines 281-317: the Note On and the Note Off of one Note element
NoteEvents(note, clip_start, clip_play_start, transpose, bpm, points) ==
    NoteRead(FloatAttrOr(note.attrib, "time", RatZero),
             FloatAttrOr(note.attrib, "duration", RatZero),
             IF "key" \in DOMAIN note.attrib
             THEN IntOfString(note.attrib["key"])
             ELSE [exc |-> "none", value |-> 60],
             FloatAttrOr(note.attrib, "vel", Rat(1, 2)),
             FloatAttrOr(note.attrib, "rel", Rat(1, 2)),
             clip_start, clip_play_start, transpose, bpm, points)

\* lines 281-317: the loop over the Note elements of one clip; r is what
\* the first of them gave
RECURSIVE NotesLoop(_, _, _, _, _, _, _)
RECURSIVE NotesNext(_, _, _, _, _, _, _, _)
NotesNext(r, notes, clip_start, clip_play_start, transpose, bpm, points, events) ==
    IF r.exc # "none" THEN [exc |-> r.exc, events |-> events]
    ELSE NotesLoop(Tail(notes), clip_start, clip_play_start, transpose, bpm,
                   points, events \o r.events)

NotesLoop(notes, clip_start, clip_play_start, transpose, bpm, points, events) ==
    IF notes = <<>> THEN [exc |-> "none", events |-> events]
    ELSE NotesNext(NoteEvents(Head(notes), clip_start, clip_play_start,
                              transpose, bpm, points),
                   notes, clip_start, clip_play_start, transpose, bpm, points,
                   events)

\* lines 275-317: the loop over the Clip elements of one lane; r is what
\* the notes of the first of them gave
RECURSIVE ClipsLoop(_, _, _, _, _)
RECURSIVE ClipsNext(_, _, _, _, _)
ClipsNext(r, clips, transpose, bpm, points) ==
    IF r.exc # "none" THEN r
    ELSE ClipsLoop(Tail(clips), transpose, bpm, points, r.events)

\* lines 276-281: one clip, once its attributes are read
ClipRead(clip, clip_start, clip_play_start, notes_container, transpose, bpm, points, events) ==
    IF clip_start.exc # "none" THEN [exc |-> clip_start.exc, events |-> events]
    ELSE IF clip_play_start.exc # "none"
    THEN [exc |-> clip_play_start.exc, events |-> events]
    ELSE IF notes_container = None THEN [exc |-> "none", events |-> events]
    ELSE NotesLoop(FindAll(notes_container, "Note"), clip_start.value,
                   clip_play_start.value, transpose, bpm, points, events)

ClipsLoop(clips, transpose, bpm, points, events) ==
    IF clips = <<>> THEN [exc |-> "none", events |-> events]
    ELSE ClipsNext(ClipRead(Head(clips),
                            FloatAttrOr(Head(clips).attrib, "time", RatZero),
                            FloatAttrOr(Head(clips).attrib, "playStart", RatZero),
                            Find(Head(clips), "Notes"),
                            transpose, bpm, points, events),
                   clips, transpose, bpm, points)

\* the Clip children of the Clips children of a lane, in document order
RECURSIVE ClipsOf(_)
ClipsOf(containers) ==
    IF containers = <<>> THEN <<>>
    ELSE FindAll(Head(containers), "Clip") \o ClipsOf(Tail(containers))

\* lines 247-317: the loop over the lanes of the arrangement
RECURSIVE LanesLoop(_, _, _, _, _)
RECURSIVE LanesNext(_, _, _, _, _, _, _)
\* r is what the clips of the first lane gave for the track called name
LanesNext(r, name, lanes, tracks_dict, events_dict, bpm, points) ==
    IF r.exc # "none" THEN [exc |-> r.exc, track_events |-> events_dict]
    ELSE LanesLoop(Tail(lanes), tracks_dict, DictSet(events_dict, name, r.events),
                   bpm, points)

\* lines 253-275: one lane of a track with a name; had is the track's item
\* of track_events
LaneOfTrack(name, had, lanes, tracks_dict, events_dict, bpm, points) ==
    LanesNext(ClipsLoop(ClipsOf(FindAll(Head(lanes), "Clips")),
                        Transposition(name), bpm, points,
                        IF had = None \/ had = Some(<<>>)
                        THEN <<TrackNameEvent(name)>>
                        ELSE had.value),
              name, lanes, tracks_dict, events_dict, bpm, points)

\* lines 248-251: track is the item of tracks for the lane's track id
LaneRead(track, lanes, tracks_dict, events_dict, bpm, points) ==
    \* tracks.get(track_id) is None, or a name that is None or empty
    IF track = None \/ track.value = None \/ track.value = Some("")
    THEN LanesLoop(Tail(lanes), tracks_dict, events_dict, bpm, points)
    ELSE LaneOfTrack(track.value.value,
                     DictFind(events_dict, Some(track.value.value)),
                     lanes, tracks_dict, events_dict, bpm, points)

LanesLoop(lanes, tracks_dict, events_dict, bpm, points) ==
    IF lanes = <<>> THEN [exc |-> "none", track_events |-> events_dict]
    ELSE LaneRead(DictFind(tracks_dict, Get(Head(lanes).attrib, "track")),
                  lanes, tracks_dict, events_dict, bpm, points)

\* the sort key (x['absoluteTicks'], x['type'] == 'noteOff') of a is not
\* greater than that of b: tuples compare item by item, False before True
KeyLeq(a, b) ==
    \/ a.absoluteTicks < b.absoluteTicks
    \/ /\ a.absoluteTicks = b.absoluteTicks
       /\ (a.type = "noteOff") => (b.type = "noteOff")

\* e placed after every element of the sorted s whose key is not greater
RECURSIVE InsertByKey(_, _)
InsertByKey(s, e) ==
    IF s = <<>> THEN <<e>>
    ELSE IF KeyLeq(s[Len(s)], e) THEN Append(s, e)
    ELSE Append(InsertByKey(SubSeq(s, 1, Len(s) - 1), e), s[Len(s)])

\* evts.sort(key=...): a stable sort
RECURSIVE SortByKey(_)
SortByKey(s) ==
    IF s = <<>> THEN <<>>
    ELSE InsertByKey(SortByKey(SubSeq(s, 1, Len(s) - 1)), s[Len(s)])

\* max(evts, key=lambda x: x['time']): the first event that no event exceeds
MaxByTime(evts) ==
    evts[CHOOSE i \in DOMAIN evts :
            /\ \A j \in DOMAIN evts : ~TimeLess(evts[i].time, evts[j].time)
            /\ \A j \in 1..(i - 1) : TimeLess(evts[j].time, evts[i].time)]

\* lines 332-354: one track sorted, with its end of track marker
Assembled(track_evts) ==
    LET evts == SortByKey(track_evts)
        last_evt == MaxByTime(evts)
    IN  Append(evts,
               [absoluteTicks |-> IF evts = <<>> THEN 0 ELSE last_evt.absoluteTicks,
                channel |-> 15, type |-> "meta", metaType |-> 47,
                subType |-> "endOfTrack",
                time |-> IF evts = <<>> THEN Time(RatZero) ELSE last_evt.time])

\* lines 324-328: the five names, then the other names of track_events
OrderedTracks(events_dict) ==
    LET five == <<"Violin I", "Violin II", "Viola", "Violoncello", "Contrabass">>
        Other(item) == \A i \in DOMAIN five : five[i] # item.key
        others == SelectSeq(events_dict, Other)
    IN  five \o [i \in DOMAIN others |-> others[i].key]

\* lines 318-356: the tracks of ordered_tracks that have events
FinalOutput(events_dict) ==
    LET ordered_tracks == OrderedTracks(events_dict)
        Has(t_name) == DictFind(events_dict, Some(t_name)) # None
        present == SelectSeq(ordered_tracks, Has)
    IN  [i \in DOMAIN present |->
            Assembled(DictFind(events_dict, Some(present[i])).value)]

\* line 225: initial_bpm, tempo_points = get_tempo_map(root)
GetTempoMap ==
    /\ pc = "get_tempo_map"
    /\ LET r == get_tempo_map(root)
       IN  IF r.exc # "none"
           THEN /\ exc' = r.exc
                /\ pc' = "raised"
                /\ UNCHANGED <<initial_bpm, tempo_points>>
           ELSE /\ initial_bpm' = r.initial_bpm
                /\ tempo_points' = r.points
                /\ pc' = "parse_tracks"
                /\ exc' = exc
    /\ UNCHANGED <<stdout, output_file, arg, result, root, daw_tracks,
                   daw_track_events, final_output>>
    /\ UNCHANGED midiVars

\* lines 228-232: the tracks of the Structure element
ParseTracks ==
    /\ pc = "parse_tracks"
    /\ LET structure == Find(root, "Structure")
           r == IF structure = None THEN [exc |-> "none", tracks |-> <<>>]
                ELSE TracksLoop(FindAll(structure, "Track"), <<>>)
       IN  IF r.exc # "none"
           THEN /\ exc' = r.exc
                /\ pc' = "raised"
                /\ UNCHANGED daw_tracks
           ELSE /\ daw_tracks' = r.tracks
                /\ pc' = "parse_notes"
                /\ exc' = exc
    /\ UNCHANGED <<stdout, output_file, arg, result, root, initial_bpm,
                   tempo_points, daw_track_events, final_output>>
    /\ UNCHANGED midiVars

\* lines 235-317: the notes of the lanes of the Arrangement element
ParseNotes ==
    /\ pc = "parse_notes"
    /\ LET arrangement == Find(root, "Arrangement")
           lanes_container ==
               IF arrangement = None THEN None ELSE Find(arrangement, "Lanes")
           r == IF lanes_container = None
                THEN [exc |-> "none", track_events |-> <<>>]
                ELSE LanesLoop(FindAll(lanes_container, "Lanes"), daw_tracks,
                               <<>>, initial_bpm, tempo_points)
       IN  IF r.exc # "none"
           THEN /\ exc' = r.exc
                /\ pc' = "raised"
                /\ UNCHANGED daw_track_events
           ELSE /\ daw_track_events' = r.track_events
                /\ pc' = "assemble"
                /\ exc' = exc
    /\ UNCHANGED <<stdout, output_file, arg, result, root, initial_bpm,
                   tempo_points, daw_tracks, final_output>>
    /\ UNCHANGED midiVars

\* lines 318-356: every track sorted and closed by its end of track marker
Assemble ==
    /\ pc = "assemble"
    /\ final_output' = FinalOutput(daw_track_events)
    /\ pc' = "write"
    /\ UNCHANGED <<exc, stdout, output_file, arg, result, root, initial_bpm,
                   tempo_points, daw_tracks, daw_track_events>>
    /\ UNCHANGED midiVars

\* lines 358-361: json.dump(final_output, f) and the message
Write ==
    /\ pc = "write"
    /\ output_file' = final_output
    /\ stdout' = Append(stdout, "Converted")
    /\ pc' = "done"
    /\ UNCHANGED <<exc, arg, result, root, initial_bpm, tempo_points,
                   daw_tracks, daw_track_events, final_output>>
    /\ UNCHANGED midiVars

(***************************************************************************)
(* The projects of the run: a Transport, a Structure of one or two tracks, *)
(* and an Arrangement with a lane of notes, at most one more lane, and at  *)
(* most one tempo automation.                                              *)
(***************************************************************************)
\* notes in the clip of the first track: at most MaxNotes
MaxNotes == 2

TempoKinds ==
    {"none", "notempo", "120", "60", "0", "novalue", "abc", "noid"}

\* the Transport element of a project, if it has one
TransportOf(kind) ==
    LET Tempo(attrib) ==
            <<Element("Transport", <<>>, <<Element("Tempo", attrib, <<>>)>>)>>
    IN  CASE kind = "none" -> <<>>
          [] kind = "notempo" -> <<Element("Transport", <<>>, <<>>)>>
          [] kind = "120" ->
                Tempo(("id" :> "tempo") @@ ("value" :> <<"1", "2", "0">>))
          [] kind = "60" -> Tempo(("id" :> "tempo") @@ ("value" :> <<"6", "0">>))
          [] kind = "0" -> Tempo(("id" :> "tempo") @@ ("value" :> <<"0">>))
          [] kind = "novalue" -> Tempo("id" :> "tempo")
          [] kind = "abc" ->
                Tempo(("id" :> "tempo") @@ ("value" :> <<"a", "b", "c">>))
          [] kind = "noid" -> Tempo("value" :> <<"1", "2", "0">>)

\* the attributes of a point of the automation
PointOf(kind) ==
    CASE kind = "0:60" -> ("time" :> <<"0">>) @@ ("value" :> <<"6", "0">>)
      [] kind = "1:120" -> ("time" :> <<"1">>) @@ ("value" :> <<"1", "2", "0">>)
      [] kind = "1:60" -> ("time" :> <<"1">>) @@ ("value" :> <<"6", "0">>)
      [] kind = "notime" -> ("value" :> <<"1", "2", "0">>)
      [] kind = "1:abc" -> ("time" :> <<"1">>) @@ ("value" :> <<"a", "b", "c">>)

\* the automations: none, a ramp, a step, two points out of order, and
\* points with a missing or a malformed attribute
Automations ==
    {<<>>, <<"0:60", "1:120">>, <<"1:120", "1:60">>, <<"1:120", "0:60">>,
     <<"notime">>, <<"0:60", "1:abc">>}

\* the automation element: the points are its children, or the children of
\* its Points child
AutomationOf(kinds, nested) ==
    LET points == [i \in DOMAIN kinds |->
                      Element("RealPoint", PointOf(kinds[i]), <<>>)]
        target == Element("Target", "parameter" :> "tempo", <<>>)
    IN  IF kinds = <<>> THEN <<>>
        ELSE IF nested
        THEN <<Element("TempoAutomation", <<>>,
                       <<target, Element("Points", <<>>, points)>>)>>
        ELSE <<Element("TempoAutomation", <<>>, <<target>> \o points)>>

NoteKinds == {"0+1", "1+1", "0.5+0.5", "1+0"}

NoteOf(kind) ==
    LET Note(time, duration) ==
            Element("Note",
                    ("time" :> time) @@ ("duration" :> duration)
                        @@ ("key" :> <<"6", "0">>),
                    <<>>)
    IN  CASE kind = "0+1" -> Note(<<"0">>, <<"1">>)
          [] kind = "1+1" -> Note(<<"1">>, <<"1">>)
          [] kind = "0.5+0.5" -> Note(<<"0", ".", "5">>, <<"0", ".", "5">>)
          [] kind = "1+0" -> Note(<<"1">>, <<"0">>)

NoteLists == UNION {[1..n -> NoteKinds] : n \in 0..MaxNotes}

\* a lane of one clip
LaneOf(track_id, clip_attrib, notes) ==
    Element("Lanes", "track" :> track_id,
            <<Element("Clips", <<>>,
                      <<Element("Clip", clip_attrib,
                                <<Element("Notes", <<>>, notes)>>)>>)>>)

\* the other lane: none, one of a track outside the five names, one of the
\* Contrabass, or one of a track the Structure does not have
SecondLanes == {"none", "Piano", "Contrabass", "unknown"}

Project(tempo, points, nested, notes, play_start, second) ==
    LET first == LaneOf("a",
                        IF play_start THEN ("time" :> <<"0">>) @@ ("playStart" :> <<"1">>)
                        ELSE "time" :> <<"0">>,
                        [i \in DOMAIN notes |-> NoteOf(notes[i])])
        other == IF second = "none" THEN <<>>
                 ELSE <<LaneOf("b", <<>>, <<NoteOf("0+1")>>)>>
        structure ==
            Element("Structure", <<>>,
                    <<Element("Track", ("id" :> "a") @@ ("name" :> "Violin I"), <<>>)>>
                    \o (IF second \in {"Piano", "Contrabass"}
                        THEN <<Element("Track", ("id" :> "b") @@ ("name" :> second),
                                       <<>>)>>
                        ELSE <<>>))
        arrangement ==
            Element("Arrangement", <<>>,
                    <<Element("Lanes", <<>>, other \o <<first>>)>>
                    \o AutomationOf(points, nested))
    IN  Element("Project", <<>>, TransportOf(tempo) \o <<structure, arrangement>>)

InitDaw ==
    /\ MidiIdle
    /\ pc = "get_tempo_map"
    /\ exc = "none"
    /\ stdout = <<>>
    /\ output_file = None
    /\ result = None
    /\ initial_bpm = None
    /\ tempo_points = <<>>
    /\ daw_tracks = <<>>
    /\ daw_track_events = <<>>
    /\ final_output = <<>>
    /\ \E tempo \in TempoKinds, points \in Automations, nested \in BOOLEAN,
          notes \in NoteLists, play_start \in BOOLEAN, second \in SecondLanes :
          /\ points # <<>> => tempo = "120"
          /\ nested => points # <<>>
          /\ root = Project(tempo, points, nested, notes, play_start, second)
          /\ arg = [tempo |-> tempo, points |-> points, nested |-> nested,
                    notes |-> notes, play_start |-> play_start, second |-> second]

NextDaw ==
    \/ GetTempoMap
    \/ ParseTracks
    \/ ParseNotes
    \/ Assemble
    \/ Write

SpecDaw == InitDaw /\ [][NextDaw]_vars

(***************************************************************************)
(* get_tempo_map applied on its own to projects with several automation    *)
(* elements, whose Target names the tempo parameter, another parameter, no *)
(* parameter at all (the target of a controller lane), or is missing.      *)
(***************************************************************************)
\* automation elements of a project: at most MaxAutomations
MaxAutomations == 2

TargetKinds == {"tempo", "volume", "controller", "notarget"}

CurveKinds == {<<"0:60", "1:120">>, <<"1:60">>}

\* the Transport of the project: none, one without a Tempo, a Tempo with the
\* id "tempo", a Tempo without an id
TransportKinds == {"none", "notempo", "120", "noid"}

AutomationChoices ==
    UNION {[1..n -> [target : TargetKinds, points : CurveKinds]] :
              n \in 0..MaxAutomations}

TargetOf(kind) ==
    CASE kind = "tempo" -> <<Element("Target", "parameter" :> "tempo", <<>>)>>
      [] kind = "volume" -> <<Element("Target", "parameter" :> "volume", <<>>)>>
      [] kind = "controller" ->
            <<Element("Target", "expression" :> "channelController", <<>>)>>
      [] kind = "notarget" -> <<>>

PointsElement(choice) ==
    Element("Points", <<>>,
            TargetOf(choice.target)
            \o [i \in DOMAIN choice.points |->
                   Element("RealPoint", PointOf(choice.points[i]), <<>>)])

ProjectOf(transport, automations) ==
    Element("Project", <<>>,
            TransportOf(transport)
            \o <<Element("Arrangement", <<>>,
                         [i \in DOMAIN automations |->
                             PointsElement(automations[i])])>>)

InitTempoMap ==
    /\ MidiIdle
    /\ pc = "get_tempo_map"
    /\ exc = "none"
    /\ stdout = <<>>
    /\ output_file = None
    /\ result = None
    /\ initial_bpm = None
    /\ tempo_points = <<>>
    /\ daw_tracks = <<>>
    /\ daw_track_events = <<>>
    /\ final_output = <<>>
    /\ \E transport \in TransportKinds, automations \in AutomationChoices :
          /\ root = ProjectOf(transport, automations)
          /\ arg = [transport |-> transport, automations |-> automations]

NextTempoMap == GetTempoMap

SpecTempoMap == InitTempoMap /\ [][NextTempoMap]_vars

\* the automation elements linked to the tempo parameter: the project has a
\* Tempo element with an identifier and their Target names it
Linked ==
    IF arg.transport # "120" THEN {}
    ELSE {i \in DOMAIN arg.automations : arg.automations[i].target = "tempo"}

\* the samples of an automation of the projects above, as (beat, BPM)
SamplesOf(kinds) ==
    IF kinds = <<"1:60">> THEN <<<<Rat(1, 1), Rat(60, 1)>>>>
    ELSE <<<<Rat(0, 1), Rat(60, 1)>>, <<Rat(1, 1), Rat(120, 1)>>>>

\* C26: get_tempo_map takes the points of the first element linked to the
\* tempo parameter and of no later one, and returns no point for a document
\* in which no element is linked to it, a document with no Transport or no
\* Tempo element included: the map is then the constant initial rate, at
\* which a beat b >= 0 is b * 60 / initial BPM seconds.
FirstLinkedCurveOnly ==
    pc = "parse_tracks" =>
        /\ Linked # {} =>
              tempo_points =
                  SamplesOf(arg.automations[CHOOSE i \in Linked :
                                               \A j \in Linked : i <= j].points)
        /\ Linked = {} =>
              /\ tempo_points = <<>>
              /\ \A b \in {Rat(0, 1), Rat(1, 2), Rat(3, 1)} :
                    beats_to_seconds(b, initial_bpm, tempo_points).value
                        = Time(RatQuot(RatMul(b, Rat(60, 1)), initial_bpm))

\* the points are those of the first linked element when there is one
LinkedCurveFirst ==
    (pc = "parse_tracks" /\ Linked # {}) =>
        tempo_points =
            SamplesOf(arg.automations[CHOOSE i \in Linked :
                                         \A j \in Linked : i <= j].points)

(***************************************************************************)
(* The claims about the run of dawproject_to_json.py.                      *)
(***************************************************************************)
\* C11: in every assembled track, a Note Off and a Note On at the same tick
\* are in the order Note Off, Note On, and the events are otherwise in
\* order of non-decreasing tick.
NoteOffBeforeNoteOn ==
    \A t \in DOMAIN final_output :
        LET evts == final_output[t]
        IN  \A i, j \in DOMAIN evts :
                i < j =>
                    /\ evts[i].absoluteTicks <= evts[j].absoluteTicks
                    /\ ~ /\ evts[i].absoluteTicks = evts[j].absoluteTicks
                         /\ evts[i].type = "noteOn"
                         /\ evts[j].type = "noteOff"

\* C14: every output track ends with exactly one end of track marker, after
\* all other events, whose tick and time are those of the track's last
\* event, the event with the greatest position.
EndOfTrackAtLastEvent ==
    \A t \in DOMAIN final_output :
        LET evts == final_output[t]
            marker == evts[Len(evts)]
            others == SubSeq(evts, 1, Len(evts) - 1)
        IN  /\ marker.type = "meta"
            /\ marker.metaType = 47
            /\ marker.subType = "endOfTrack"
            /\ \A i \in DOMAIN others :
                  /\ ~ /\ others[i].type = "meta"
                       /\ others[i].metaType = 47
                  /\ others[i].absoluteTicks <= marker.absoluteTicks
            /\ \E i \in DOMAIN others :
                  /\ others[i].absoluteTicks = marker.absoluteTicks
                  /\ others[i].time = marker.time

\* the project has a numeric attribute of the tempo or of a point of its
\* automation that is missing or not a number
MalformedNumeric ==
    \/ arg.tempo \in {"novalue", "abc"}
    \/ \E i \in DOMAIN arg.points : arg.points[i] \in {"notime", "1:abc"}

\* C17: when the tempo element's value attribute, or a tempo point's time
\* or value attribute, is missing or not a number, get_tempo_map fails
\* (InvalidNumericAttribute) and substitutes no default.  (Any exception of
\* the call is taken for the failure: the program has no error of that
\* name.)
MalformedNumericFails ==
    (MalformedNumeric /\ pc # "get_tempo_map") =>
        /\ pc = "raised"
        /\ exc \in {"InvalidNumericAttribute", "ValueError", "TypeError"}
        /\ initial_bpm = None

\* C7: for every v in [0, 2^28) written in the standard variable-length
\* encoding at any offset of a buffer, read_variable_length returns v and
\* the offset just past the last byte of the encoding.
VarLenRoundTrip ==
    (pc # "call" /\ arg.kind = "encoded") =>
        /\ pc = "returned"
        /\ ~AtLeast2To32(result)
        /\ IntOf(result) = arg.v
        /\ offset = arg.offset + Len(EncodeVarLen(arg.v))

\* a four-byte encoding read from a non-zero offset
VarLenRoundTripWitness ==
    /\ pc = "returned"
    /\ arg.kind = "encoded"
    /\ arg.v >= 128 * 128 * 128
    /\ arg.offset > 0
    /\ offset = arg.offset + 4

\* C8: the reader is capped at 32 bits: it never returns a value of 2^32
\* or more.
VarLenCapped ==
    pc = "returned" => ~AtLeast2To32(result)

====
